---- MODULE Spec2Model ----
(***************************************************************************)
(* Spendbit: the transaction categorizer, the in-browser TransactionStore, *)
(* the upload flow and the statement parsers, as state machines.           *)
(*                                                                         *)
(* Text is modelled with TLA+ strings; a character is a string of length 1.*)
(* Money is an integer number of cents.  A Date is an integer number of    *)
(* hours since an arbitrary epoch; a multiple of 24 is a midnight.         *)
(***************************************************************************)
EXTENDS Integers, Sequences, FiniteSets, TLC

----------------------------------------------------------------------------
(* String primitives of the JavaScript runtime used by the sources.        *)

CharAt(s, i) == SubSeq(s, i, i)

\* String.prototype.includes
includes(s, k) ==
  \E i \in 1..(Len(s) - Len(k) + 1) : SubSeq(s, i, i + Len(k) - 1) = k

startsWith(s, k) == Len(k) <= Len(s) /\ SubSeq(s, 1, Len(k)) = k

endsWith(s, k) == Len(k) <= Len(s) /\ SubSeq(s, Len(s) - Len(k) + 1, Len(s)) = k

UpperCaseLetters == "ABCDEFGHIJKLMNOPQRSTUVWXYZ"

LowerCaseLetters == "abcdefghijklmnopqrstuvwxyz"

Digits == "0123456789"

IndexIn(alphabet, c) ==
  IF \E i \in 1..Len(alphabet) : CharAt(alphabet, i) = c
  THEN CHOOSE i \in 1..Len(alphabet) : CharAt(alphabet, i) = c
  ELSE 0

isUpper(c) == IndexIn(UpperCaseLetters, c) > 0

isLower(c) == IndexIn(LowerCaseLetters, c) > 0

isDigit(c) == IndexIn(Digits, c) > 0

\* \s of a regular expression: the whitespace of the modelled alphabet.
isSpace(c) == c = " " \/ c = "\n"

toLowerChar(c) ==
  IF isUpper(c) THEN CharAt(LowerCaseLetters, IndexIn(UpperCaseLetters, c)) ELSE c

toUpperChar(c) ==
  IF isLower(c) THEN CharAt(UpperCaseLetters, IndexIn(LowerCaseLetters, c)) ELSE c

RECURSIVE toLowerCase(_)
toLowerCase(s) ==
  IF Len(s) <= 1 THEN toLowerChar(s)
  ELSE toLowerCase(SubSeq(s, 1, Len(s) \div 2))
         \o toLowerCase(SubSeq(s, (Len(s) \div 2) + 1, Len(s)))

RECURSIVE toUpperCase(_)
toUpperCase(s) ==
  IF Len(s) <= 1 THEN toUpperChar(s)
  ELSE toUpperCase(SubSeq(s, 1, Len(s) \div 2))
         \o toUpperCase(SubSeq(s, (Len(s) \div 2) + 1, Len(s)))

RECURSIVE trimStart(_)
trimStart(s) ==
  IF s # "" /\ isSpace(CharAt(s, 1)) THEN trimStart(SubSeq(s, 2, Len(s))) ELSE s

RECURSIVE trimEnd(_)
trimEnd(s) ==
  IF s # "" /\ isSpace(CharAt(s, Len(s))) THEN trimEnd(SubSeq(s, 1, Len(s) - 1)) ELSE s

\* String.prototype.trim
trim(s) == trimEnd(trimStart(s))

\* Index of the first whitespace character of s, or 0.
firstSpace(s) ==
  IF \E i \in 1..Len(s) : isSpace(CharAt(s, i))
  THEN CHOOSE i \in 1..Len(s) :
         isSpace(CharAt(s, i)) /\ \A j \in 1..(i - 1) : ~isSpace(CharAt(s, j))
  ELSE 0

\* s.split(/\s+/): the pieces between maximal runs of whitespace; a leading
\* or trailing run leaves an empty piece, as in JavaScript.
RECURSIVE splitWhitespace(_)
splitWhitespace(s) ==
  LET i == firstSpace(s) IN
    IF i = 0 THEN << s >>
    ELSE << SubSeq(s, 1, i - 1) >> \o splitWhitespace(trimStart(SubSeq(s, i, Len(s))))

\* Array.prototype.includes
arrayIncludes(arr, x) == \E i \in 1..Len(arr) : arr[i] = x

RECURSIVE SumSeq(_)
SumSeq(q) == IF q = << >> THEN 0 ELSE Head(q) + SumSeq(Tail(q))

Abs(n) == IF n < 0 THEN -n ELSE n

----------------------------------------------------------------------------
(* lib/transaction-categorizer.ts                                          *)

InitialExpenseRules ==
  << [keywords |-> <<
          "restaurant", "cafe", "coffee", "pizza", "burger", "taco", "sushi",
          "deli", "mcdonald", "burger king", "kfc", "subway", "chipotle", "panera",
          "starbucks", "dunkin", "dominos", "papa john", "taco bell", "wendy",
          "chick-fil-a", "olive garden", "applebee", "chili", "outback",
          "red lobster", "ihop", "denny", "food truck", "dining", "lunch",
          "dinner", "breakfast", "brunch", "takeout", "delivery", "uber eats",
          "doordash", "grubhub", "postmates", "bistro", "grill", "pub", "bar",
          "tavern", "bakery", "ice cream", "yogurt" >>,
       category |-> "Food & Dining", priority |-> 9, type |-> "expense"],
     [keywords |-> <<
          "gas", "fuel", "gasoline", "shell", "exxon", "bp", "chevron", "mobil",
          "uber", "lyft", "taxi", "cab", "parking", "park", "metro", "bus",
          "train", "subway", "transit", "toll", "bridge", "rental car",
          "car rental", "hertz", "enterprise", "avis", "budget", "airline",
          "flight", "airport", "delta", "american airlines", "united", "southwest",
          "jetblue", "auto repair", "mechanic", "oil change", "tire", "car wash",
          "inspection" >>,
       category |-> "Transportation", priority |-> 9, type |-> "expense"],
     [keywords |-> <<
          "amazon", "walmart", "target", "costco", "sam club", "bj wholesale",
          "grocery", "supermarket", "safeway", "kroger", "publix", "whole foods",
          "trader joe", "aldi", "food lion", "giant", "stop shop", "wegmans",
          "shopping", "store", "mall", "outlet", "department store", "retail",
          "macy", "nordstrom", "sears", "jcpenney", "kohl", "tj maxx", "marshall",
          "best buy", "home depot", "lowe", "menards", "ace hardware", "pharmacy",
          "cvs", "walgreens", "rite aid", "drugstore" >>,
       category |-> "Shopping", priority |-> 8, type |-> "expense"],
     [keywords |-> <<
          "electric", "electricity", "power", "utility", "water", "sewer",
          "gas bill", "natural gas", "internet", "cable", "phone", "cell",
          "mobile", "verizon", "att", "t-mobile", "sprint", "comcast", "xfinity",
          "spectrum", "cox", "directv", "dish", "satellite", "broadband",
          "insurance", "auto insurance", "car insurance", "home insurance",
          "health insurance", "life insurance", "geico", "state farm", "allstate",
          "progressive", "usaa", "liberty mutual" >>,
       category |-> "Bills & Utilities", priority |-> 9, type |-> "expense"],
     [keywords |-> <<
          "netflix", "hulu", "disney", "amazon prime", "spotify", "apple music",
          "youtube", "movie", "theater", "cinema", "amc", "regal", "concert",
          "ticketmaster", "stubhub", "game", "gaming", "steam", "playstation",
          "xbox", "nintendo", "entertainment", "music", "streaming",
          "subscription", "gym", "fitness", "planet fitness", "la fitness",
          "24 hour fitness", "ymca", "crossfit", "yoga", "pilates", "spa",
          "massage" >>,
       category |-> "Entertainment", priority |-> 7, type |-> "expense"],
     [keywords |-> <<
          "doctor", "physician", "hospital", "clinic", "medical", "health",
          "dental", "dentist", "orthodontist", "vision", "optometrist",
          "prescription", "pharmacy", "medicine", "drug", "co-pay", "copay",
          "deductible", "lab", "x-ray", "mri", "ct scan", "surgery",
          "emergency room", "urgent care", "physical therapy", "chiropractor",
          "mental health", "therapy", "counseling", "psychiatrist" >>,
       category |-> "Healthcare", priority |-> 8, type |-> "expense"],
     [keywords |-> <<
          "hotel", "motel", "resort", "inn", "lodge", "airbnb", "vrbo", "marriott",
          "hilton", "hyatt", "sheraton", "holiday inn", "travel", "vacation",
          "trip", "booking", "expedia", "kayak", "priceline", "orbitz",
          "travelocity", "cruise", "carnival", "royal caribbean", "norwegian",
          "disney cruise" >>,
       category |-> "Travel", priority |-> 7, type |-> "expense"],
     [keywords |-> <<
          "school", "university", "college", "tuition", "education",
          "student loan", "books", "textbook", "supplies", "course", "class",
          "training", "certification", "workshop", "seminar", "online course",
          "udemy", "coursera", "masterclass" >>,
       category |-> "Education", priority |-> 7, type |-> "expense"],
     [keywords |-> <<
          "haircut", "salon", "barber", "nail", "manicure", "pedicure", "beauty",
          "cosmetics", "makeup", "skincare", "personal care", "dry cleaning",
          "laundry", "tailor", "alteration" >>,
       category |-> "Personal Care", priority |-> 6, type |-> "expense"],
     [keywords |-> <<
          "home improvement", "furniture", "appliance", "garden", "lawn",
          "landscaping", "hardware", "paint", "tools", "renovation", "repair",
          "maintenance", "cleaning", "pest control", "security", "rent",
          "mortgage", "property tax", "hoa", "homeowners association" >>,
       category |-> "Home & Garden", priority |-> 6, type |-> "expense"],
     [keywords |-> <<
          "fee", "charge", "penalty", "fine", "atm", "overdraft", "nsf",
          "maintenance", "service charge", "late fee", "interest charge",
          "annual fee", "monthly fee", "transaction fee", "foreign transaction",
          "cash advance", "balance transfer", "wire fee", "stop payment" >>,
       category |-> "Fees & Charges", priority |-> 10, type |-> "expense"],
     [keywords |-> <<
          "office", "supplies", "business", "conference", "meeting", "software",
          "subscription", "professional", "consulting", "accounting", "legal",
          "marketing", "advertising", "printing" >>,
       category |-> "Business", priority |-> 6, type |-> "expense"],
     [keywords |-> <<
          "gift", "present", "donation", "charity", "nonprofit", "church",
          "religious", "contribution", "fundraiser", "wedding", "birthday",
          "anniversary", "holiday" >>,
       category |-> "Gifts & Donations", priority |-> 5, type |-> "expense"] >>

InitialIncomeRules ==
  << [keywords |-> <<
          "salary", "payroll", "wage", "pay", "direct deposit", "dd", "employer",
          "work", "job", "income", "earnings", "compensation", "bonus",
          "commission", "overtime", "tips", "gratuity" >>,
       category |-> "Salary", priority |-> 10, type |-> "income"],
     [keywords |-> <<
          "freelance", "contract", "consulting", "gig", "project", "client",
          "invoice", "payment", "professional services", "independent contractor",
          "1099", "self employed" >>,
       category |-> "Freelance", priority |-> 9, type |-> "income"],
     [keywords |-> <<
          "dividend", "interest", "investment", "stock", "bond", "mutual fund",
          "etf", "capital gains", "portfolio", "brokerage", "trading", "crypto",
          "cryptocurrency", "bitcoin", "ethereum", "retirement", "401k", "ira" >>,
       category |-> "Investment Returns", priority |-> 8, type |-> "income"],
     [keywords |-> <<
          "business income", "sales", "revenue", "customer payment",
          "business deposit", "merchant", "stripe", "paypal business", "square",
          "invoice payment", "business transfer" >>,
       category |-> "Business Income", priority |-> 7, type |-> "income"],
     [keywords |-> <<
          "refund", "return", "credit", "reimbursement", "rebate", "cashback",
          "cash back", "reward", "points redemption", "adjustment", "reversal",
          "chargeback", "dispute resolution" >>,
       category |-> "Refunds", priority |-> 6, type |-> "income"],
     [keywords |-> <<
          "rent", "rental", "tenant", "property income", "lease", "airbnb host",
          "vrbo host", "property management" >>,
       category |-> "Rental Income", priority |-> 6, type |-> "income"] >>


\* calculateMatchScore: the loop over the keywords, 3 for a keyword equal to
\* one of the whitespace-separated words, 1 for a keyword that is only included.
RECURSIVE matchScoreFrom(_, _, _, _)
matchScoreFrom(description, words, keywords, k) ==
  IF k > Len(keywords) THEN 0
  ELSE (IF includes(description, keywords[k])
        THEN (IF arrayIncludes(words, keywords[k]) THEN 3 ELSE 1)
        ELSE 0) + matchScoreFrom(description, words, keywords, k + 1)

calculateMatchScore(description, keywords) ==
  matchScoreFrom(description, splitWhitespace(description), keywords, 1)

NoMatch == [category |-> "", score |-> 0, priority |-> 0]

\* A loop turn that also replaces the best match on an equal product.
bestMatchStepLastWins(bestMatch, rule, desc) ==
  LET matchScore == calculateMatchScore(desc, rule.keywords)
      totalScore == matchScore * rule.priority IN
    IF matchScore > 0
       /\ (bestMatch = NoMatch \/ totalScore >= bestMatch.score * bestMatch.priority)
    THEN [category |-> rule.category, score |-> matchScore, priority |-> rule.priority]
    ELSE bestMatch

\* One turn of the loop of categorizeTransaction over the rules.
bestMatchStep(bestMatch, rule, desc) ==
  LET matchScore == calculateMatchScore(desc, rule.keywords)
      totalScore == matchScore * rule.priority IN
    IF matchScore > 0
       /\ (bestMatch = NoMatch \/ totalScore > bestMatch.score * bestMatch.priority)
    THEN [category |-> rule.category, score |-> matchScore, priority |-> rule.priority]
    ELSE bestMatch

RECURSIVE bestMatchLoop(_, _, _, _)
bestMatchLoop(bestMatch, rules, desc, k) ==
  IF k > Len(rules) THEN bestMatch
  ELSE bestMatchLoop(bestMatchStep(bestMatch, rules[k], desc), rules, desc, k + 1)

Undefined == "undefined"

\* categorizeTransaction(description, amount, type?) over the rule tables the
\* singleton holds at the time of the call.
categorizeTransaction(description, amount, type, eRules, iRules) ==
  LET desc == trim(toLowerCase(description))
      transactionType ==
        IF type # Undefined THEN type ELSE IF amount > 0 THEN "income" ELSE "expense"
      rules == IF transactionType = "income" THEN iRules ELSE eRules
      bestMatch == bestMatchLoop(NoMatch, rules, desc, 1) IN
    IF bestMatch # NoMatch THEN bestMatch.category
    ELSE IF transactionType = "income" THEN "Other Income" ELSE "Other"

\* Array.prototype.sort((a, b) => b.priority - a.priority): stable, so rules
\* of equal priority keep their relative order.  Insertion of each rule after
\* the rules of greater or equal priority already placed.
RECURSIVE sortByPriorityDesc(_)
sortByPriorityDesc(rules) ==
  IF rules = << >> THEN << >>
  ELSE LET n == Len(rules)
           front == sortByPriorityDesc(SubSeq(rules, 1, n - 1))
           last == rules[n]
           keep == Cardinality({i \in 1..Len(front) : front[i].priority >= last.priority}) IN
         SubSeq(front, 1, keep) \o << last >> \o SubSeq(front, keep + 1, Len(front))

----------------------------------------------------------------------------
(* lib/transaction-store.ts: the pure parts.                               *)
(*                                                                         *)
(* A Transaction is a record                                               *)
(*   [id, date, description, amount, category, type, source,               *)
(*    originalAmount]                                                      *)
(* with date in hours since the epoch, amount in cents, and originalAmount *)
(* either << >> (the field is absent) or << n >>.                          *)

Types == {"income", "expense"}

NoOriginal == << >>

Range(q) == {q[i] : i \in DOMAIN q}

\* const dateThreshold = 24 * 60 * 60 * 1000, in hours.
dateThreshold == 24

\* const amountThreshold = 0.01, in cents.
amountThreshold == 1

\* The amounts c (in cents) among those the model uses for which the IEEE-754
\* double |c/100 - (c+1)/100| is greater than the double 0.01:
\*   1.01 - 1.00 = 0.010000000000000009  (greater)
\*   5.76 - 5.75 = 0.009999999999999787  (not greater)
oneCentGapRoundsAbove == {100}

\* Math.abs(existing.amount - newTransaction.amount) > amountThreshold, as the
\* double arithmetic of the runtime decides it.  A gap of two cents or more is
\* above the threshold and a gap of zero is not; a gap of exactly one cent
\* falls on either side of the double 0.01.
amountDiffExceedsThreshold(a, b) ==
  LET gap == Abs(a - b)
      lower == IF Abs(a) < Abs(b) THEN Abs(a) ELSE Abs(b) IN
    \/ gap > amountThreshold
    \/ gap = amountThreshold /\ lower \in oneCentGapRoundsAbove

\* str.replace(/[^a-z0-9\s]/g, '')
RECURSIVE removeSpecialCharacters(_)
removeSpecialCharacters(s) ==
  IF s = "" THEN ""
  ELSE LET c == CharAt(s, 1) IN
         (IF isLower(c) \/ isDigit(c) \/ isSpace(c) THEN c ELSE "")
           \o removeSpecialCharacters(SubSeq(s, 2, Len(s)))

\* str.replace(/\s+/g, ' ')
collapseWhitespace(s) ==
  LET piece(i) == IF ~isSpace(CharAt(s, i)) THEN CharAt(s, i)
                  ELSE IF i > 1 /\ isSpace(CharAt(s, i - 1)) THEN "" ELSE " "
      RECURSIVE from(_, _)
      from(lo, hi) == IF lo > hi THEN ""
                      ELSE IF lo = hi THEN piece(lo)
                      ELSE from(lo, (lo + hi) \div 2) \o from(((lo + hi) \div 2) + 1, hi) IN
    from(1, Len(s))

\* The normalize closure of calculateDescriptionSimilarity.
normalize(str) == trim(collapseWhitespace(removeSpecialCharacters(toLowerCase(str))))

\* s.split(' ')
RECURSIVE splitOnSpace(_)
splitOnSpace(s) ==
  LET i == firstSpace(s) IN
    IF i = 0 THEN << s >>
    ELSE << SubSeq(s, 1, i - 1) >> \o splitOnSpace(SubSeq(s, i + 1, Len(s)))

longWord(w) == Len(w) > 2

\* calculateDescriptionSimilarity: the quotient commonWords.length / totalWords
\* as the pair [num, den]; 1.0 is [1, 1] and 0.0 is [0, 1].
calculateDescriptionSimilarity(desc1, desc2) ==
  LET normalized1 == normalize(desc1)
      normalized2 == normalize(desc2)
      words1 == SelectSeq(splitOnSpace(normalized1), longWord)
      words2 == SelectSeq(splitOnSpace(normalized2), longWord)
      inWords2(word) == arrayIncludes(words2, word)
      commonWords == SelectSeq(words1, inWords2)
      totalWords == Cardinality(Range(words1) \cup Range(words2)) IN
    IF normalized1 = normalized2 THEN [num |-> 1, den |-> 1]
    ELSE IF Len(words1) = 0 /\ Len(words2) = 0 THEN [num |-> 1, den |-> 1]
    ELSE IF Len(words1) = 0 \/ Len(words2) = 0 THEN [num |-> 0, den |-> 1]
    ELSE [num |-> Len(commonWords), den |-> totalWords]

\* similarity < 0.8
belowSimilarityThreshold(similarity) == similarity.num * 10 < similarity.den * 8

\* The predicate handed to this.transactions.some(...) in isDuplicateTransaction.
likelyDuplicate(existing, newTransaction) ==
  /\ ~(Abs(existing.date - newTransaction.date) > dateThreshold)
  /\ ~amountDiffExceedsThreshold(existing.amount, newTransaction.amount)
  /\ ~belowSimilarityThreshold(
        calculateDescriptionSimilarity(existing.description, newTransaction.description))
  /\ ~(existing.type # newTransaction.type)

isDuplicateTransaction(newTransaction, stored) ==
  \E i \in 1..Len(stored) : likelyDuplicate(stored[i], newTransaction)

\* Date.prototype.toISOString as [day, hour], and new Date(iso).
toISOString(date) == [day |-> date \div 24, hour |-> date % 24]

newDate(iso) == iso.day * 24 + iso.hour

\* { ...t, ...updates }
spread(t, updates) ==
  [f \in DOMAIN t \cup DOMAIN updates |-> IF f \in DOMAIN updates THEN updates[f] ELSE t[f]]

\* The object saveToLocalStorage hands to JSON.stringify.
serialize(stored, balance) ==
  [transactions |-> [i \in 1..Len(stored) |->
                       [stored[i] EXCEPT !.date = toISOString(stored[i].date)]],
   debitCardBalance |-> balance]

\* The transactions loadFromLocalStorage builds from the parsed item.
deserialize(data) ==
  [i \in 1..Len(data.transactions) |->
     [data.transactions[i] EXCEPT !.date = newDate(data.transactions[i].date)]]

\* generateId: a string no stored transaction carries (the random 9-character
\* strings are taken not to collide), as the least unused number.
generateId(used) == CHOOSE n \in 1..(Cardinality(used) + 1) :
                      n \notin used /\ \A m \in 1..(n - 1) : m \in used

----------------------------------------------------------------------------
(* State.                                                                  *)

VARIABLES
  expenseRules,     \* TransactionCategorizer.expenseRules
  incomeRules,      \* TransactionCategorizer.incomeRules
  customRules,      \* the rules handed to addCustomRule so far, in call order
  remembered,       \* some earlier call of categorizeTransaction, or NoCall
  latest            \* the most recent call of categorizeTransaction, or NoCall

VARIABLES
  transactions,     \* TransactionStore.transactions
  debitCardBalance, \* TransactionStore.debitCardBalance
  localStorage,     \* the item 'financeTracker_transactions': << >> or << data >>
  upload,           \* the UploadFile of the FileUpload component
  showUpload,       \* TransactionsPage.showUpload
  lastOp,           \* the last operation performed on the store, with its arguments
  listeners,        \* TransactionStore.listeners, each by the number of its subscribe call
  unsubscribed,     \* the listeners whose unsubscribe function has been called
  notified,         \* the listeners the last operation on the store has invoked, in order
  otherTransactions,     \* TransactionStore.transactions in another tab
  otherDebitCardBalance, \* TransactionStore.debitCardBalance in another tab
  lastSaver         \* the store whose saveToLocalStorage wrote the item last

catVars == << expenseRules, incomeRules, customRules, remembered, latest >>

pageVars == << upload, showUpload >>

listenerVars == << listeners, unsubscribed, notified >>

tabVars == << otherTransactions, otherDebitCardBalance >>

storeVars == << transactions, debitCardBalance, localStorage, lastOp, pageVars, listenerVars,
               tabVars, lastSaver >>

NoUpload == [status |-> "none", file |-> 0, transactions |-> << >>]

VARIABLES
  statement,             \* the lines parseTextForTransactions was given
  pc,                    \* where parseBankOfAmericaCreditCardSections stands
  allTransactions,       \* what extractAllTransactionPatterns has returned
  processedTransactions, \* indices into allTransactions: the same objects
  currentSection,        \* currentSectionType, then currentSection
  lineIndex,             \* the line the running loop reads next
  sectionTransactions,   \* what the section-based walk has found
  uniqueTransactions     \* what parseTextForTransactions returns

VARIABLES
  list,                  \* a list of transactions handed to removeDuplicates
  once,                  \* << removeDuplicates(list) >>, or << >> before the call
  twice                  \* << removeDuplicates(removeDuplicates(list)) >>, or << >>

VARIABLES
  upFile,                \* the file handed to SimpleTransactionParser.parseFile
  fileLine,              \* the line parseCSV or parseText reads next
  fileTransactions,      \* the transactions parsed from the file so far
  outcome,               \* what parseFile has done: returned transactions or thrown
  strategy,              \* the function parseFile has dispatched to, or "none"
  request,               \* the request the upload route is handling, or NoRequest
  response               \* the response of the upload route, or NoResponse

VARIABLES
  call,                  \* a call of a function without side effects: its name and arguments
  returned               \* << what the call returned >>, or << >> before it returns

VARIABLES
  imageFiles,            \* the page images convertPDFToText has made of the document
  pageIndex,             \* the page convertPDFToText reads next
  configIndex,           \* the OCR configuration it tries next on that page
  textRead,              \* the lines of the text read so far
  ocrLog,                \* the calls of tesseract made so far, and whether each failed
  pdfPc                  \* where parsePDF stands

pdfVars == << statement, pc, allTransactions, processedTransactions, currentSection,
              lineIndex, sectionTransactions, uniqueTransactions >>

dedupVars == << list, once, twice >>

simpleVars == << upFile, fileLine, fileTransactions, outcome, strategy, request, response >>

callVars == << call, returned >>

ocrVars == << imageFiles, pageIndex, configIndex, textRead, ocrLog, pdfPc >>

parserVars == << pdfVars, dedupVars, simpleVars, callVars, ocrVars >>

NoFile == [name |-> "", type |-> "", size |-> 0, lines |-> << >>]

NoRequest == [method |-> "none", session |-> FALSE, file |-> NoFile]

NoResponse == [status |-> 0]

PdfIdle ==
  /\ statement = << >>
  /\ pc = "idle"
  /\ allTransactions = << >>
  /\ processedTransactions = << >>
  /\ currentSection = "null"
  /\ lineIndex = 0
  /\ sectionTransactions = << >>
  /\ uniqueTransactions = << >>

DedupIdle ==
  /\ list = << >>
  /\ once = << >>
  /\ twice = << >>

SimpleIdle ==
  /\ upFile = NoFile
  /\ strategy = "none"
  /\ request = NoRequest
  /\ response = NoResponse
  /\ fileLine = 0
  /\ fileTransactions = << >>
  /\ outcome = "none"

\* No parser has been called.
NoCallYet == [op |-> "none"]

CallIdle == call = NoCallYet /\ returned = << >>

OcrIdle ==
  /\ imageFiles = << >>
  /\ pageIndex = 0
  /\ configIndex = 0
  /\ textRead = << >>
  /\ ocrLog = << >>
  /\ pdfPc = "idle"

ParsersIdle == PdfIdle /\ DedupIdle /\ SimpleIdle /\ CallIdle /\ OcrIdle

vars == << catVars, storeVars, parserVars >>

----------------------------------------------------------------------------
(* The categorizer singleton and its callers.                              *)

\* Most rules that addCustomRule is let to add.
MaxCustomRules == 1

NoCall == [description |-> "", amount |-> 0, type |-> Undefined, result |-> "", customs |-> 0]

\* Arguments of categorizeTransaction that callers pass: amounts in cents.
CategorizerInputs ==
  { [description |-> "atm rent gardens paints", amount |-> 12000, type |-> "expense"],
    [description |-> "coffee gas", amount |-> 450, type |-> "expense"],
    [description |-> "  STARBUCKS Coffee ", amount |-> -575, type |-> Undefined],
    [description |-> "payroll deposit", amount |-> 250000, type |-> Undefined],
    [description |-> "payroll deposit", amount |-> 0, type |-> Undefined],
    [description |-> "burger king", amount |-> 899, type |-> "expense"],
    [description |-> "rental refund", amount |-> 5000, type |-> "income"],
    [description |-> "xyz", amount |-> 100, type |-> "income"],
    [description |-> "xyz", amount |-> 100, type |-> "expense"] }

\* Rules a caller may hand to addCustomRule.
CustomRuleInputs ==
  { [keywords |-> << "zzz" >>, category |-> "Pets", priority |-> 7, type |-> "expense"],
    [keywords |-> << "qqq" >>, category |-> "Side Income", priority |-> 8, type |-> "income"],
    [keywords |-> << "coffee" >>, category |-> "Coffee", priority |-> 10, type |-> "expense"] }

CatStart ==
  /\ expenseRules = InitialExpenseRules
  /\ incomeRules = InitialIncomeRules
  /\ customRules = << >>
  /\ remembered = NoCall
  /\ latest = NoCall

\* A caller invokes categorizeTransaction; the rule tables are only read.
CategorizeCall(in) ==
  /\ latest' = [description |-> in.description, amount |-> in.amount, type |-> in.type,
                result |-> categorizeTransaction(in.description, in.amount, in.type,
                                                 expenseRules, incomeRules),
                customs |-> Len(customRules)]
  /\ remembered' \in {remembered, latest}
  /\ UNCHANGED << expenseRules, incomeRules, customRules, storeVars, parserVars >>

\* addCustomRule(rule): push, then sort by descending priority.
AddCustomRule(rule) ==
  /\ Len(customRules) < MaxCustomRules
  /\ IF rule.type = "income"
     THEN /\ incomeRules' = sortByPriorityDesc(Append(incomeRules, rule))
          /\ UNCHANGED expenseRules
     ELSE /\ expenseRules' = sortByPriorityDesc(Append(expenseRules, rule))
          /\ UNCHANGED incomeRules
  /\ customRules' = Append(customRules, rule)
  /\ UNCHANGED << remembered, latest, storeVars, parserVars >>

----------------------------------------------------------------------------
(* The TransactionStore singleton and its callers.                         *)

\* Most transactions the store is let to hold.
MaxTransactions == 2

\* The category the singleton categorizer returns while its rule tables are
\* the built-in ones.
builtInCategory(description, type) ==
  categorizeTransaction(description, 0, type, InitialExpenseRules, InitialIncomeRules)

\* A transaction as SimpleTransactionParser.createTransaction returns it for a
\* signed amount, before an id is drawn.
parsed(date, description, originalAmount, type) ==
  [date |-> date, description |-> description, amount |-> Abs(originalAmount),
   category |-> builtInCategory(description, type), type |-> type,
   source |-> "upload", originalAmount |-> << originalAmount >>]

\* Lists a caller hands to addTransactions.  Dates are midnights.
Batches ==
  << << parsed(240, "STARBUCKS STORE 1234 SEATTLE", -575, "expense"),
        parsed(240, "STARBUCKS STORE 1234 SEATTLE", -575, "expense") >>,
     << parsed(264, "STARBUCKS STORE 1234 SEATTLE USA", -576, "expense") >>,
     << parsed(288, "STARBUCKS STORE 1234 SEATTLE", -575, "expense") >>,
     << parsed(240, "STARBUCKS STORE 1234 TACOMA", -575, "expense") >>,
     << parsed(240, "STARBUCKS STORE 1234 SEATTLE", 575, "income") >>,
     << parsed(240, "STARBUCKS STORE 1234 SEATTLE", -577, "expense") >>,
     << parsed(240, "AMAZON MARKETPLACE", -100, "expense") >>,
     << parsed(240, "AMAZON MARKETPLACE", -101, "expense") >> >>

\* Arguments of addManualTransaction.
ManualInputs ==
  { [description |-> "Lunch with team", amount |-> 1200, date |-> 240,
     type |-> "expense", category |-> "Business"],
    [description |-> "Gift card", amount |-> 0, date |-> 264,
     type |-> "expense", category |-> "Gifts & Donations"] }

\* Arguments of updateTransaction: the five fields the edit form submits, or
\* a part of them.
UpdateInputs ==
  { [description |-> "Coffee beans", amount |-> 700, date |-> 264,
     type |-> "expense", category |-> "Shopping"],
    [category |-> "Travel"] }

StoreDescriptions ==
  UNION {{Batches[b][k].description : k \in DOMAIN Batches[b]} : b \in DOMAIN Batches}
    \cup {m.description : m \in ManualInputs}
    \cup {u.description : u \in {v \in UpdateInputs : "description" \in DOMAIN v}}

\* categorizer.categorizeTransaction as the store calls it, tabulated once for
\* the descriptions of the model.
CategoryTable ==
  [d \in StoreDescriptions |-> [ty \in Types |-> builtInCategory(d, ty)]]

categorize(t) == [t EXCEPT !.category = CategoryTable[t.description][t.type]]

RECURSIVE mapCategorize(_)
mapCategorize(ts) ==
  IF ts = << >> THEN << >> ELSE << categorize(Head(ts)) >> \o mapCategorize(Tail(ts))

\* The ids the parser draws for the transactions of one answer.
RECURSIVE withIds(_, _)
withIds(ts, used) ==
  IF ts = << >> THEN << >>
  ELSE LET id == generateId(used) IN
         << [f \in DOMAIN Head(ts) \cup {"id"} |-> IF f = "id" THEN id ELSE Head(ts)[f]] >>
           \o withIds(Tail(ts), used \cup {id})

idsOf(ts) == {ts[i].id : i \in 1..Len(ts)}

NoOp == [op |-> "none", id |-> 0]

\* saveToLocalStorage with the last transaction left out
saveAllButLast(ts, balance) ==
  << serialize(SubSeq(ts, 1, Len(ts) - 1), balance) >>

\* saveToLocalStorage
saveToLocalStorage(ts, balance) == << serialize(ts, balance) >>

\* notifyListeners that invokes the first listener only
notifyFirstListener(ls) == IF ls = << >> THEN << >> ELSE << Head(ls) >>

\* notifyListeners: the listeners it invokes, in order
notifyListeners(ls) == ls

\* saveToLocalStorage and notifyListeners at the end of an operation of the
\* store of this tab, which holds these transactions and this balance
SaveAndNotify(ts, balance) ==
  /\ localStorage' = saveToLocalStorage(ts, balance)
  /\ lastSaver' = "this"
  /\ notified' = notifyListeners(listeners)

\* an operation that ends without them
NeitherSaveNorNotify ==
  /\ notified' = << >>
  /\ UNCHANGED << localStorage, lastSaver >>

\* addTransactions that does not look for duplicates
addAllTransactions(stored, newTransactions) == stored \o mapCategorize(newTransactions)

\* addTransactions(newTransactions)
addTransactions(stored, newTransactions) ==
  LET incoming == mapCategorize(newTransactions)
      notDuplicate(t) == ~isDuplicateTransaction(t, stored) IN
    stored \o SelectSeq(incoming, notDuplicate)

AddTransactions(b) ==
  LET newTransactions == withIds(Batches[b], idsOf(transactions)) IN
    /\ Len(transactions) + Len(newTransactions) <= MaxTransactions
    /\ transactions' = addTransactions(transactions, newTransactions)
    /\ IF Len(transactions') > Len(transactions)
       THEN SaveAndNotify(transactions', debitCardBalance)
       ELSE NeitherSaveNorNotify
    /\ lastOp' = [op |-> "addTransactions", id |-> b]
    /\ UNCHANGED << debitCardBalance, listeners, unsubscribed, tabVars, pageVars, catVars,
                    parserVars >>

\* addManualTransaction(transaction)
addManualTransaction(stored, transaction) ==
  LET newTransaction ==
        [id |-> generateId(idsOf(stored)), date |-> transaction.date,
         description |-> transaction.description, amount |-> transaction.amount,
         category |-> transaction.category, type |-> transaction.type,
         source |-> "manual", originalAmount |-> NoOriginal] IN
    Append(stored, categorize(newTransaction))

AddManualTransaction(transaction) ==
  /\ Len(transactions) < MaxTransactions
  /\ transactions' = addManualTransaction(transactions, transaction)
  /\ SaveAndNotify(transactions', debitCardBalance)
  /\ lastOp' = [op |-> "addManualTransaction", id |-> generateId(idsOf(transactions))]
  /\ UNCHANGED << debitCardBalance, listeners, unsubscribed, tabVars, pageVars, catVars,
                  parserVars >>

\* An update that categorizes the merged transaction again.
updateAndCategorize(stored, id, updates) ==
  IF \E i \in 1..Len(stored) : stored[i].id = id
  THEN LET index == CHOOSE i \in 1..Len(stored) : stored[i].id = id IN
         [stored EXCEPT ![index] = categorize(spread(stored[index], updates))]
  ELSE stored

\* updateTransaction(id, updates)
updateTransaction(stored, id, updates) ==
  IF \E i \in 1..Len(stored) : stored[i].id = id
  THEN LET index == CHOOSE i \in 1..Len(stored) :
                      stored[i].id = id /\ \A j \in 1..(i - 1) : stored[j].id # id IN
         [stored EXCEPT ![index] = spread(stored[index], updates)]
  ELSE stored

UpdateTransaction(id, updates) ==
  /\ transactions' = updateTransaction(transactions, id, updates)
  /\ IF id \in idsOf(transactions)
     THEN SaveAndNotify(transactions', debitCardBalance)
     ELSE NeitherSaveNorNotify
  /\ lastOp' = [op |-> "updateTransaction", id |-> id]
  /\ UNCHANGED << debitCardBalance, listeners, unsubscribed, tabVars, pageVars, catVars,
                  parserVars >>

\* deleteTransaction(id)
deleteTransaction(stored, id) ==
  LET keep(t) == t.id # id IN SelectSeq(stored, keep)

DeleteTransaction(id) ==
  /\ transactions' = deleteTransaction(transactions, id)
  /\ SaveAndNotify(transactions', debitCardBalance)
  /\ lastOp' = [op |-> "deleteTransaction", id |-> id]
  /\ UNCHANGED << debitCardBalance, listeners, unsubscribed, tabVars, pageVars, catVars,
                  parserVars >>

\* loadFromLocalStorage: with an item stored it notifies the listeners
LoadFromLocalStorage ==
  /\ IF localStorage # << >>
     THEN /\ transactions' = deserialize(localStorage[1])
          /\ debitCardBalance' = localStorage[1].debitCardBalance
          /\ notified' = notifyListeners(listeners)
     ELSE /\ notified' = << >>
          /\ UNCHANGED << transactions, debitCardBalance >>
  /\ lastOp' = [op |-> "loadFromLocalStorage", id |-> 0]
  /\ UNCHANGED << localStorage, lastSaver, listeners, unsubscribed, tabVars, pageVars,
                  catVars, parserVars >>

\* setDebitCardBalance(balance)
SetDebitCardBalance(balance) ==
  /\ debitCardBalance' = balance
  /\ UNCHANGED transactions
  /\ SaveAndNotify(transactions, balance)
  /\ lastOp' = [op |-> "setDebitCardBalance", id |-> 0]
  /\ UNCHANGED << listeners, unsubscribed, tabVars, pageVars, catVars, parserVars >>

\* clearAll
ClearAll ==
  /\ transactions' = << >>
  /\ debitCardBalance' = 0
  /\ SaveAndNotify(<< >>, 0)
  /\ lastOp' = [op |-> "clearAll", id |-> 0]
  /\ UNCHANGED << listeners, unsubscribed, tabVars, pageVars, catVars, parserVars >>

MaxListeners == 2

\* subscribe(listener).  Every caller passes a function it has just made, so
\* the listener is a new one; it is known by the number of the call.
Subscribe ==
  LET listener == Len(listeners) + Cardinality(unsubscribed) + 1 IN
    /\ listener <= MaxListeners
    /\ listeners' = Append(listeners, listener)
    /\ notified' = << >>
    /\ lastOp' = [op |-> "subscribe", id |-> listener]
    /\ UNCHANGED << transactions, debitCardBalance, localStorage, lastSaver, unsubscribed,
                    tabVars, pageVars, catVars, parserVars >>

\* this.listeners.filter(l => l !== listener)
unsubscribe(ls, listener) == SelectSeq(ls, LAMBDA l : l # listener)

\* The function subscribe returned for this listener is called, for the first
\* time or again.
Unsubscribe(listener) ==
  /\ listener \in Range(listeners) \cup unsubscribed
  /\ listeners' = unsubscribe(listeners, listener)
  /\ unsubscribed' = unsubscribed \cup {listener}
  /\ notified' = << >>
  /\ lastOp' = [op |-> "unsubscribe", id |-> listener]
  /\ UNCHANGED << transactions, debitCardBalance, localStorage, lastSaver, tabVars,
                  pageVars, catVars, parserVars >>

\* The page is loaded anew: the module is instantiated again, its store is
\* empty and without listeners until loadFromLocalStorage is called.
NewInstance ==
  /\ transactions' = << >>
  /\ debitCardBalance' = 0
  /\ lastOp' = NoOp
  /\ listeners' = << >>
  /\ unsubscribed' = {}
  /\ notified' = << >>
  /\ upload' = NoUpload
  /\ showUpload' = FALSE
  /\ UNCHANGED << localStorage, lastSaver, tabVars, catVars, parserVars >>

StoreStart ==
  /\ transactions = << >>
  /\ debitCardBalance = 0
  /\ localStorage = << >>
  /\ lastOp = NoOp
  /\ listeners = << >>
  /\ unsubscribed = {}
  /\ notified = << >>
  /\ otherTransactions = << >>
  /\ otherDebitCardBalance = 0
  /\ lastSaver = "none"
  /\ upload = NoUpload
  /\ showUpload = FALSE

Init == CatStart /\ StoreStart /\ ParsersIdle

Next ==
  \/ \E b \in DOMAIN Batches : AddTransactions(b)
  \/ \E transaction \in ManualInputs : AddManualTransaction(transaction)
  \/ \E id \in 1..MaxTransactions, updates \in UpdateInputs : UpdateTransaction(id, updates)
  \/ \E id \in 1..MaxTransactions : DeleteTransaction(id)
  \/ LoadFromLocalStorage
  \/ NewInstance

Spec == Init /\ [][Next]_vars

\* The store with its listeners and the balance of the debit card
Balances == {0, 50000}

ListenerNext ==
  \/ \E b \in {7} : AddTransactions(b)
  \/ \E transaction \in {m \in ManualInputs : m.amount > 0} : AddManualTransaction(transaction)
  \/ \E id \in 1..MaxTransactions : UpdateTransaction(id, [category |-> "Travel"])
  \/ \E id \in 1..MaxTransactions : DeleteTransaction(id)
  \/ \E balance \in Balances : SetDebitCardBalance(balance)
  \/ ClearAll
  \/ LoadFromLocalStorage
  \/ Subscribe
  \/ \E listener \in 1..MaxListeners : Unsubscribe(listener)

SpecListeners == Init /\ [][ListenerNext]_vars

\* The same operations in another tab, whose store is another instance over
\* the same localStorage and has no listeners
OtherLoadFromLocalStorage ==
  /\ localStorage # << >>
  /\ otherTransactions' = deserialize(localStorage[1])
  /\ otherDebitCardBalance' = localStorage[1].debitCardBalance
  /\ UNCHANGED << transactions, debitCardBalance, localStorage, lastOp, lastSaver,
                  listenerVars, pageVars, catVars, parserVars >>

OtherAddManualTransaction(transaction) ==
  /\ Len(otherTransactions) < MaxTransactions
  /\ otherTransactions' = addManualTransaction(otherTransactions, transaction)
  /\ localStorage' = saveToLocalStorage(otherTransactions', otherDebitCardBalance)
  /\ lastSaver' = "other"
  /\ UNCHANGED << transactions, debitCardBalance, lastOp, otherDebitCardBalance,
                  listenerVars, pageVars, catVars, parserVars >>

OtherDeleteTransaction(id) ==
  /\ otherTransactions' = deleteTransaction(otherTransactions, id)
  /\ localStorage' = saveToLocalStorage(otherTransactions', otherDebitCardBalance)
  /\ lastSaver' = "other"
  /\ UNCHANGED << transactions, debitCardBalance, lastOp, otherDebitCardBalance,
                  listenerVars, pageVars, catVars, parserVars >>

OtherSetDebitCardBalance(balance) ==
  /\ otherDebitCardBalance' = balance
  /\ localStorage' = saveToLocalStorage(otherTransactions, balance)
  /\ lastSaver' = "other"
  /\ UNCHANGED << transactions, debitCardBalance, lastOp, otherTransactions,
                  listenerVars, pageVars, catVars, parserVars >>

TabsNext ==
  \/ \E transaction \in ManualInputs : AddManualTransaction(transaction)
  \/ \E id \in 1..MaxTransactions : DeleteTransaction(id)
  \/ \E balance \in Balances : SetDebitCardBalance(balance)
  \/ LoadFromLocalStorage
  \/ \E transaction \in ManualInputs : OtherAddManualTransaction(transaction)
  \/ \E id \in 1..MaxTransactions : OtherDeleteTransaction(id)
  \/ \E balance \in Balances : OtherSetDebitCardBalance(balance)
  \/ OtherLoadFromLocalStorage

SpecTabs == Init /\ [][TabsNext]_vars

\* A store that is changed by addTransactions only, and its listeners
IngestNext ==
  \/ \E b \in DOMAIN Batches : AddTransactions(b)
  \/ Subscribe
  \/ \E listener \in 1..MaxListeners : Unsubscribe(listener)

SpecIngest == Init /\ [][IngestNext]_vars

----------------------------------------------------------------------------
(* The TransactionsPage handlers and the FileUpload component.             *)

RECURSIVE parseInt(_)
parseInt(digits) ==
  IF digits = "" THEN 0
  ELSE 10 * parseInt(SubSeq(digits, 1, Len(digits) - 1))
         + IndexIn(Digits, CharAt(digits, Len(digits))) - 1

\* parseFloat of the text of a number input with at most two decimals, in cents.
parseFloat(text) ==
  LET dot == IF \E i \in 1..Len(text) : CharAt(text, i) = "."
             THEN CHOOSE i \in 1..Len(text) : CharAt(text, i) = "."
             ELSE Len(text) + 1
      decimals == SubSeq(text, dot + 1, Len(text))
      cents == IF Len(decimals) = 0 THEN 0
               ELSE IF Len(decimals) = 1 THEN 10 * parseInt(decimals)
               ELSE parseInt(decimals) IN
    100 * parseInt(SubSeq(text, 1, dot - 1)) + cents

\* new Date(text) for the text of a date input, "2025-06-dd": midnight UTC of
\* that day; the epoch of the model is the midnight before 2025-06-01.
newDateOfInput(text) == 24 * parseInt(SubSeq(text, 9, 10))

\* What the user has typed into the add form or the edit form.
Forms ==
  { [description |-> "Lunch with team", amount |-> "12.00", date |-> "2025-06-10",
     type |-> "expense", category |-> "Business"],
    [description |-> "Gift card", amount |-> "0", date |-> "2025-06-11",
     type |-> "expense", category |-> "Gifts & Donations"],
    [description |-> "Coffee beans", amount |-> "7.5", date |-> "2025-06-11",
     type |-> "expense", category |-> "Shopping"],
    [description |-> "Coffee beans", amount |-> "", date |-> "2025-06-11",
     type |-> "expense", category |-> "Shopping"] }

filledIn(form) ==
  form.description # "" /\ form.amount # "" /\ form.date # "" /\ form.category # ""

fromForm(form) ==
  [description |-> form.description, amount |-> parseFloat(form.amount),
   date |-> newDateOfInput(form.date), type |-> form.type, category |-> form.category]

\* handleAddTransaction
HandleAddTransaction(form) ==
  /\ filledIn(form)
  /\ AddManualTransaction(fromForm(form))

\* handleUpdateTransaction, the transaction with this id being the selected one
HandleUpdateTransaction(id, form) ==
  /\ id \in idsOf(transactions)
  /\ filledIn(form)
  /\ UpdateTransaction(id, fromForm(form))

\* confirmDeleteTransaction, the transaction with this id being the selected one
ConfirmDeleteTransaction(id) ==
  /\ id \in idsOf(transactions)
  /\ DeleteTransaction(id)

\* What POST /api/transactions/upload answers for the files of the model: the
\* parsed transactions, or none for a file it rejects with status 500.
StatementFiles ==
  << << parsed(240, "STARBUCKS STORE 1234 SEATTLE", -575, "expense"),
        parsed(264, "AMAZON MARKETPLACE", -100, "expense") >>,
     << parsed(288, "PAYROLL DEPOSIT", 250000, "income") >>,
     << >> >>

\* onDrop: the file is listed as 'pending'; the page shows the upload panel.
OnDrop(file) ==
  /\ upload.status \in {"none", "success", "error"}
  /\ upload' = [status |-> "pending", file |-> file, transactions |-> << >>]
  /\ showUpload' = TRUE
  /\ UNCHANGED << transactions, debitCardBalance, localStorage, lastOp, listenerVars, tabVars,
                  lastSaver, catVars, parserVars >>

\* uploadSingleFile up to its await: the file is marked 'uploading' and posted.
UploadSingleFile ==
  /\ upload.status = "pending"
  /\ upload' = [upload EXCEPT !.status = "uploading"]
  /\ UNCHANGED << showUpload, transactions, debitCardBalance, localStorage, lastOp,
                  listenerVars, tabVars, lastSaver, catVars, parserVars >>

\* uploadSingleFile after its await.  An answer with transactions: the file is
\* marked 'success' and onParsedTransactions, that is handleParsedTransactions,
\* runs.  An answer that is not ok: the file is marked 'error'.
UploadResponse ==
  /\ upload.status = "uploading"
  /\ LET result == withIds(StatementFiles[upload.file], idsOf(transactions)) IN
       IF Len(result) > 0
       THEN /\ upload' = [upload EXCEPT !.status = "success", !.transactions = result]
            /\ showUpload' = FALSE
       ELSE /\ upload' = [upload EXCEPT !.status = "error"]
            /\ UNCHANGED showUpload
  /\ UNCHANGED << transactions, debitCardBalance, localStorage, lastOp, listenerVars, tabVars,
                  lastSaver, catVars, parserVars >>

PageNext ==
  \/ LoadFromLocalStorage
  \/ \E form \in Forms : HandleAddTransaction(form)
  \/ \E id \in 1..MaxTransactions, form \in Forms : HandleUpdateTransaction(id, form)
  \/ \E id \in 1..MaxTransactions : ConfirmDeleteTransaction(id)
  \/ \E file \in DOMAIN StatementFiles : OnDrop(file)
  \/ UploadSingleFile
  \/ UploadResponse
  \/ NewInstance

SpecPage == Init /\ [][PageNext]_vars

CatNext ==
  \/ \E in \in CategorizerInputs : CategorizeCall(in)
  \/ \E rule \in CustomRuleInputs : AddCustomRule(rule)

SpecCat == Init /\ [][CatNext]_vars

----------------------------------------------------------------------------
(* lib/pdf-transaction-parser.ts: removeDuplicates.                        *)
(*                                                                         *)
(* A Transaction of the PDF parser is a record                             *)
(*   [date, description, amount, category, type, foundIn]                  *)
(* where foundIn, which the source does not have, is the set of sections   *)
(* whose lines parseBankOfAmericaCreditCardSections has found it in.       *)

RECURSIVE toString(_)
\* String(n), n a natural number
toString(n) ==
  IF n < 10 THEN CharAt(Digits, n + 1)
  ELSE toString(n \div 10) \o CharAt(Digits, (n % 10) + 1)

padStart2(n) == IF n < 10 THEN "0" \o toString(n) ELSE toString(n)

\* amount.toFixed(2), the amount in cents
toFixed2(amount) == toString(amount \div 100) \o "." \o padStart2(amount % 100)

\* date.toISOString() as text.  The epoch of the model is 2025-05-31T00:00Z and
\* the dates of the model lie in June 2025.
isoText(date) ==
  "2025-06-" \o padStart2(date \div 24) \o "T" \o padStart2(date % 24) \o ":00:00.000Z"

cleanedDescription(transaction) == trim(collapseWhitespace(toLowerCase(transaction.description)))

exactKey(transaction) ==
  isoText(transaction.date) \o "-" \o toFixed2(transaction.amount) \o "-"
    \o cleanedDescription(transaction)

fuzzyKey(transaction) == isoText(transaction.date) \o "-" \o cleanedDescription(transaction)

\* A Map is the sequence of its entries [key, value] in insertion order.
mapHas(map, key) == \E i \in 1..Len(map) : map[i].key = key

mapGet(map, key) == map[CHOOSE i \in 1..Len(map) : map[i].key = key].value

mapSet(map, key, value) ==
  LET others(entry) == entry.key # key IN
    Append(SelectSeq(map, others), [key |-> key, value |-> value])

\* A loop turn that, on an exact duplicate, also forgets the key it has seen.
removeDuplicatesStepForgets(state, transaction) ==
  LET others(entry) == entry.key # exactKey(transaction)
      added == [seen |-> mapSet(state.seen, exactKey(transaction), transaction),
                unique |-> Append(state.unique, transaction)] IN
    IF mapHas(state.seen, exactKey(transaction))
    THEN [state EXCEPT !.seen = SelectSeq(state.seen, others)]
    ELSE IF mapHas(state.seen, fuzzyKey(transaction))
         THEN LET fuzzyMatch == mapGet(state.seen, fuzzyKey(transaction)) IN
                IF transaction.amount = fuzzyMatch.amount
                     /\ transaction.description # fuzzyMatch.description
                THEN state ELSE added
         ELSE added

\* One turn of the loop of removeDuplicates: state is [seen, unique].
removeDuplicatesStep(state, transaction) ==
  LET added == [seen |-> mapSet(state.seen, exactKey(transaction), transaction),
                unique |-> Append(state.unique, transaction)] IN
    IF mapHas(state.seen, exactKey(transaction))
    THEN state
    ELSE IF mapHas(state.seen, fuzzyKey(transaction))
         THEN LET fuzzyMatch == mapGet(state.seen, fuzzyKey(transaction)) IN
                IF transaction.amount = fuzzyMatch.amount
                     /\ transaction.description # fuzzyMatch.description
                THEN state ELSE added
         ELSE added

RECURSIVE removeDuplicatesLoop(_, _)
removeDuplicatesLoop(state, ts) ==
  IF ts = << >> THEN state.unique
  ELSE removeDuplicatesLoop(removeDuplicatesStep(state, Head(ts)), Tail(ts))

removeDuplicates(ts) == removeDuplicatesLoop([seen |-> << >>, unique |-> << >>], ts)

\* Longest list handed to removeDuplicates.
MaxListLen == 3

pdfTransaction(date, description, amount, category, type) ==
  [date |-> date, description |-> description, amount |-> amount,
   category |-> category, type |-> type, foundIn |-> {}]

\* Transactions the lists are made of: the same purchase twice, in another
\* spelling, with another amount, on another day, and two whose description
\* begins with an amount.
DedupTransactions ==
  { pdfTransaction(72, "COFFEE SHOP", 500, "Fees & Charges", "expense"),
    pdfTransaction(72, "Coffee  Shop", 500, "Fees & Charges", "expense"),
    pdfTransaction(72, "COFFEE SHOP", 700, "Refunds", "income"),
    pdfTransaction(96, "COFFEE SHOP", 500, "Fees & Charges", "expense"),
    pdfTransaction(72, "5.00-COFFEE SHOP", 500, "Fees & Charges", "expense"),
    pdfTransaction(72, "5.00-COFFEE SHOP", 700, "Fees & Charges", "expense") }

Lists == UNION { [1..n -> DedupTransactions] : n \in 0..MaxListLen }

\* removeDuplicates(list)
RemoveDuplicates ==
  /\ once = << >>
  /\ once' = << removeDuplicates(list) >>
  /\ UNCHANGED << list, twice, pdfVars, simpleVars, catVars, storeVars, callVars, ocrVars >>

\* removeDuplicates of what removeDuplicates(list) has returned
RemoveDuplicatesAgain ==
  /\ once # << >>
  /\ twice = << >>
  /\ twice' = << removeDuplicates(once[1]) >>
  /\ UNCHANGED << list, once, pdfVars, simpleVars, catVars, storeVars, callVars, ocrVars >>

DedupInit ==
  /\ CatStart /\ StoreStart /\ PdfIdle /\ SimpleIdle /\ CallIdle /\ OcrIdle
  /\ list \in Lists
  /\ once = << >>
  /\ twice = << >>

DedupNext ==
  \/ RemoveDuplicates
  \/ RemoveDuplicatesAgain

SpecDedup == DedupInit /\ [][DedupNext]_vars

----------------------------------------------------------------------------
(* lib/pdf-transaction-parser.ts: the section-aware path.                  *)
(*                                                                         *)
(* The text of a statement is its lines joined with "\n".  The statements  *)
(* of the model are written with letters, digits, blanks and the           *)
(* characters "/", ".", "-"; their numbers are dates "dd/dd" and amounts   *)
(* with two decimals and at most two digits before the point.              *)

isLetter(c) == isUpper(c) \/ isLower(c)

digitAt(text, i) == i \in 1..Len(text) /\ isDigit(CharAt(text, i))

\* text.replace(re, to) for a pattern re that consumes one character: hit(i)
\* tells whether re matches at position i of text.
replaceEach(text, hit(_), to) ==
  LET RECURSIVE from(_, _)
      from(lo, hi) == IF lo > hi THEN ""
                      ELSE IF lo = hi THEN (IF hit(lo) THEN to ELSE CharAt(text, lo))
                      ELSE from(lo, (lo + hi) \div 2) \o from(((lo + hi) \div 2) + 1, hi) IN
    from(1, Len(text))

\* text.replace(/(L)(R)/g, '$1 $2') for two classes of characters L and R
\* that share no character, so that no two matches overlap.
spaceBetween(text, left(_), right(_)) ==
  LET piece(i) == IF i < Len(text) /\ left(CharAt(text, i)) /\ right(CharAt(text, i + 1))
                  THEN CharAt(text, i) \o " " ELSE CharAt(text, i)
      RECURSIVE from(_, _)
      from(lo, hi) == IF lo > hi THEN ""
                      ELSE IF lo = hi THEN piece(lo)
                      ELSE from(lo, (lo + hi) \div 2) \o from(((lo + hi) \div 2) + 1, hi) IN
    from(1, Len(text))

\* cleanOCRText.  Stage 1 rewrites O, l, I, S, B and Z next to a digit.
\* Stages 2 to 7 rewrite misread dates ("o7no", "077", "on 07/"), merchant
\* names, symbols and commas before digits, garbled amounts ("ail", "S.00")
\* and runs of three or more digits; stage 8 closes blanks around ".", ",",
\* ";" and ":".  No text of the model holds a match of these, and they are left
\* out.  Stage 9 parts letters from digits and replaces every run of
\* whitespace, line breaks included, by one blank.
cleanOCRText(text) ==
  LET before(t, c, to) ==
        replaceEach(t, LAMBDA i : CharAt(t, i) = c /\ digitAt(t, i + 1), to)
      after(t, c, to) ==
        replaceEach(t, LAMBDA i : CharAt(t, i) = c /\ digitAt(t, i - 1), to)
      s1 == after(before(text, "O", "0"), "O", "0")
      s2 == after(before(s1, "l", "1"), "l", "1")
      s3 == after(before(s2, "I", "1"), "I", "1")
      s4 == after(before(s3, "S", "5"), "S", "5")
      s5 == after(before(after(s4, "B", "8"), "Z", "2"), "Z", "2")
      s9 == spaceBetween(spaceBetween(s5, isLetter, isDigit), isDigit, isLetter) IN
    trim(collapseWhitespace(s9))

strictPaymentKeywords ==
  << "payments and other credits", "purchases and adjustments",
     "fees charged this period", "interest charged this period",
     "total minimum payment", "total payments and other credits",
     "total purchases and adjustments", "days in billing period",
     "average daily balance", "total credit limit", "available credit",
     "credit line increase", "minimum payment due", "current balance",
     "new balance", "previous balance", "payment due date", "late payment warning",
     "statement closing date", "billing cycle", "account summary", "customer service",
     "contact us", "for cash advance", "cash credit line", "portion of credit line",
     "year-to-date totals", "confirmation number", "reference number", "conf#", "ref#",
     "payment from chk", "payment - thank you", "payment thank you", "autopay payment",
     "online payment received", "check payment received",
     "electronic payment received", "bill payment received" >>

allDigits(s) == \A i \in 1..Len(s) : isDigit(CharAt(s, i))

\* isPaymentTransaction
isPaymentTransaction(description) ==
  LET lowerDesc == trim(toLowerCase(description))
      words == splitWhitespace(lowerDesc)
      exactMatch(keyword) ==
        \/ lowerDesc = keyword
        \/ startsWith(lowerDesc, keyword \o " ")
        \/ endsWith(lowerDesc, " " \o keyword)
      dollars == {i \in 1..Len(lowerDesc) : CharAt(lowerDesc, i) = "$"} IN
    \/ Len(lowerDesc) < 3
    \/ allDigits(lowerDesc)
    \/ lowerDesc = "transaction"
    \/ \E k \in 1..Len(strictPaymentKeywords) : exactMatch(strictPaymentKeywords[k])
    \/ Len(words) > 1 /\ words[1] \in {"total", "subtotal", "balance", "amount"}
    \/ Len(words) > 1 /\ words[1] \in {"date", "description", "amount", "transaction", "account"}
    \/ Cardinality(dollars) > 1

nonTransactionPhrases ==
  << "payments and other credits", "purchases and adjustments", "interest charged",
     "fees charged", "for this period", "year to date", "average daily", "billing cycle",
     "p.o. box", "wilmington", "dallas tx", "prosper tx", "dahlia garden",
     "customer service", "www.", "1.800.", "mail payment", "billing inqui",
     "visa signature", "account#", "june 23 - july 22", "may 23- june 22",
     "new balance total", "payment due date", "late payment warning", "minimum payment",
     "copyright", "bank of america corporation", "member fdic", "equal housing",
     "interest charge calculation", "annual percentage rate", "promotional",
     "balance transfers", "cash advances", "variable rate", "%v ",
     "apr type definitions", "type of annual", "reward summary", "cash back earned",
     "cash back redeemed", "cash back available", "make the most of your",
     "rewards program today", "important messages", "congratulations",
     "credit limit has been increased", "partner rewards program", "shell gas discount",
     "fuel rewards", "security meter", "mobile banking", "bofa.com", "qrc feature",
     "cash credit line", "for cash", "portion of credit available", "total credit line",
     "total credit available", "page " >>

\* isBankOfAmericaNonTransactionLine
isBankOfAmericaNonTransactionLine(line) ==
  LET lowerLine == trim(toLowerCase(line))
      has(k) == includes(lowerLine, k)
      alphanumeric(i) == isLower(CharAt(lowerLine, i)) \/ isDigit(CharAt(lowerLine, i))
      \* /^[a-z0-9]{3,}-\d{2,}-\d{2,}/
      documentId ==
        \E p, q \in 1..Len(lowerLine) :
          /\ p >= 4 /\ q >= p + 3
          /\ CharAt(lowerLine, p) = "-" /\ CharAt(lowerLine, q) = "-"
          /\ \A i \in 1..(p - 1) : alphanumeric(i)
          /\ \A i \in (p + 1)..(q - 1) : digitAt(lowerLine, i)
          /\ digitAt(lowerLine, q + 1) /\ digitAt(lowerLine, q + 2) IN
    \/ Len(trim(line)) < 5
    \/ startsWith(lowerLine, "total ")
    \/ \E k \in 1..Len(nonTransactionPhrases) : has(nonTransactionPhrases[k])
    \/ has("transaction") /\ has("date")
    \/ has("posting") /\ has("date")
    \/ has("reference") /\ has("number")
    \/ has("account") /\ has("number")
    \/ documentId
    \/ Len(lowerLine) >= 7 /\ allDigits(lowerLine)

\* s.split(sep) for a separator of one character
RECURSIVE split(_, _)
split(s, sep) ==
  IF \E i \in 1..Len(s) : CharAt(s, i) = sep
  THEN LET i == CHOOSE i \in 1..Len(s) :
                  CharAt(s, i) = sep /\ \A j \in 1..(i - 1) : CharAt(s, j) # sep IN
         << SubSeq(s, 1, i - 1) >> \o split(SubSeq(s, i + 1, Len(s)), sep)
  ELSE << s >>

\* parts.join(sep)
RECURSIVE join(_, _)
join(parts, sep) ==
  IF parts = << >> THEN ""
  ELSE IF Len(parts) = 1 THEN parts[1]
  ELSE parts[1] \o sep \o join(Tail(parts), sep)

EXPENSE_CATEGORIES ==
  << "Food & Dining", "Shopping", "Transportation", "Bills & Utilities", "Entertainment",
     "Healthcare", "Travel", "Education", "Business", "Personal Care", "Home & Garden",
     "Gifts & Donations", "Fees & Charges", "Other" >>

INCOME_CATEGORIES ==
  << "Salary", "Freelance", "Business Income", "Investment Returns", "Rental Income",
     "Refunds", "Other Income" >>

\* isReturnTransaction, the amount in cents.  The description has single
\* blanks, so that the patterns /return\s+/, /refund\s+/, /credit\s+memo/,
\* /void\s+/ and /reversal\s+/ match only where a keyword is included.
isReturnTransaction(description, amount) ==
  LET lowerDesc == toLowerCase(description)
      returnKeywords ==
        << "refund", "return", "credit memo", "credit adjustment", "cashback", "cash back",
           "reward", "rebate", "adjustment credit", "reversal", "void", "chargeback",
           "dispute credit", "promotional credit", "statement credit", "merchant credit",
           "store credit", "purchase return" >> IN
    \/ amount < 0
    \/ \E k \in 1..Len(returnKeywords) : includes(lowerDesc, returnKeywords[k])
    \/ includes(lowerDesc, "adjustment cr")
    \/ endsWith(trimEnd(lowerDesc), " cr")
    \/ endsWith(trimEnd(lowerDesc), " credit")

\* PDFTransactionParser.categorizeTransaction
pdfCategorizeTransaction(description, isIncome) ==
  LET desc == toLowerCase(description)
      any(keywords) == \E k \in 1..Len(keywords) : includes(desc, keywords[k]) IN
    IF isIncome
    THEN CASE any(<< "salary", "payroll", "wage" >>) -> "Salary"
           [] any(<< "freelance", "contract" >>) -> "Freelance"
           [] any(<< "refund", "return" >>) -> "Refunds"
           [] any(<< "dividend", "interest", "investment" >>) -> "Investment Returns"
           [] OTHER -> "Other Income"
    ELSE IF any(<< "restaurant", "food", "cafe", "pizza", "mcdonald", "starbucks", "dining",
                   "lunch", "dinner", "burger", "taco" >>) THEN "Food & Dining"
    ELSE IF any(<< "gas", "fuel", "uber", "lyft", "taxi", "parking", "metro", "bus", "train",
                   "shell", "exxon", "bp" >>) THEN "Transportation"
    ELSE IF any(<< "grocery", "supermarket", "walmart", "target", "amazon", "shopping",
                   "store", "costco", "kroger" >>) THEN "Shopping"
    ELSE IF any(<< "electric", "water", "gas bill", "internet", "phone", "utility", "cable",
                   "cell", "verizon", "att", "tmobile" >>) THEN "Bills & Utilities"
    ELSE IF any(<< "movie", "netflix", "spotify", "entertainment", "game", "music",
                   "theater", "concert" >>) THEN "Entertainment"
    ELSE IF any(<< "doctor", "hospital", "pharmacy", "medical", "health", "dental", "cvs",
                   "walgreens" >>) THEN "Healthcare"
    ELSE IF any(<< "hotel", "flight", "airbnb", "travel", "vacation", "airline",
                   "rental car", "booking" >>) THEN "Travel"
    ELSE IF any(<< "school", "university", "education", "tuition", "books", "college" >>)
         THEN "Education"
    ELSE IF any(<< "fee", "charge", "penalty", "atm", "overdraft", "maintenance" >>)
         THEN "Fees & Charges"
    ELSE "Other"

\* The longest start of text that is a number [+-]?\d+\.?\d*, "" if text does
\* not start with one.
leadingNumber(text) ==
  LET signed == startsWith(text, "+") \/ startsWith(text, "-")
      first == IF signed THEN 2 ELSE 1
      digitsFrom(i) == CHOOSE n \in 0..Len(text) :
                         /\ \A j \in i..(i + n - 1) : j <= Len(text) /\ isDigit(CharAt(text, j))
                         /\ ~(i + n <= Len(text) /\ isDigit(CharAt(text, i + n)))
      whole == digitsFrom(first)
      dot == first + whole
      decimals == IF dot <= Len(text) /\ CharAt(text, dot) = "."
                  THEN 1 + digitsFrom(dot + 1) ELSE 0 IN
    IF whole = 0 THEN "" ELSE SubSeq(text, 1, first + whole - 1 + decimals)

\* parseFloat(amountStr) in cents, << >> for NaN: the number amountStr starts
\* with, which has at most two decimals.
signedParseFloat(amountStr) ==
  LET number == leadingNumber(amountStr)
      unsigned == parseFloat(SubSeq(number, 2, Len(number))) IN
    IF number = "" THEN << >>
    ELSE IF startsWith(number, "-") THEN << 0 - unsigned >>
    ELSE IF startsWith(number, "+") THEN << unsigned >>
    ELSE << parseFloat(number) >>

\* text with every character of the set chars removed
without(text, chars) == replaceEach(text, LAMBDA i : CharAt(text, i) \in chars, "")

\* text.replace(from, to) for a character from: the first one is replaced
replaceFirst(text, from, to) ==
  IF ~includes(text, from) THEN text
  ELSE LET at == CHOOSE i \in 1..Len(text) :
                   CharAt(text, i) = from /\ \A j \in 1..(i - 1) : CharAt(text, j) # from IN
         SubSeq(text, 1, at - 1) \o to \o SubSeq(text, at + 1, Len(text))

\* ocrCorrections[cleanAmountStr], the text itself if the table has no entry
ocrCorrections(cleanAmountStr) ==
  CASE cleanAmountStr = "ail" -> "7.41" [] cleanAmountStr = "bil" -> "8.11"
    [] cleanAmountStr = "cil" -> "5.11" [] cleanAmountStr = "dll" -> "9.11"
    [] cleanAmountStr = "ell" -> "6.11" [] cleanAmountStr = "lil" -> "1.11"
    [] cleanAmountStr = "mil" -> "11.11" [] cleanAmountStr = "nil" -> "0.11"
    [] cleanAmountStr = "oil" -> "0.11" [] cleanAmountStr = "pil" -> "7.11"
    [] cleanAmountStr = "ril" -> "9.11" [] cleanAmountStr = "sil" -> "5.11"
    [] cleanAmountStr = "til" -> "1.11" [] cleanAmountStr = "vil" -> "7.11"
    [] cleanAmountStr = "wil" -> "11.11" [] cleanAmountStr = "xil" -> "8.11"
    [] cleanAmountStr = "yil" -> "9.11" [] cleanAmountStr = "zil" -> "2.11"
    [] OTHER -> cleanAmountStr

\* the last two characters split off as cents: dollars + '.' + cents
splitCents(digits) ==
  SubSeq(digits, 1, Len(digits) - 2) \o "." \o SubSeq(digits, Len(digits) - 1, Len(digits))

\* The rules of createTransaction for a text without a decimal point
withDecimalPoint(cleanAmountStr) ==
  LET digits == cleanAmountStr # "" /\ allDigits(cleanAmountStr)
      n == Len(cleanAmountStr) IN
    IF includes(cleanAmountStr, ".") THEN cleanAmountStr
    ELSE IF digits /\ n = 4 /\ parseInt(cleanAmountStr) > 999 THEN splitCents(cleanAmountStr)
    ELSE IF digits /\ n = 3 /\ parseInt(cleanAmountStr) >= 100 THEN splitCents(cleanAmountStr)
    ELSE IF digits /\ n = 2 /\ parseInt(cleanAmountStr) < 100 THEN "0." \o cleanAmountStr
    ELSE IF digits /\ n = 1 THEN cleanAmountStr \o ".00"
    ELSE IF digits /\ n >= 5 THEN splitCents(cleanAmountStr)
    ELSE cleanAmountStr

\* cleanAmountStr of createTransaction before the sign is taken off.  The
\* texts of the model are ASCII: of the four dashes that the code takes for
\* a sign only "-" occurs in them.
cleanAmountStrOf(amountStr) ==
  LET unequalled == IF startsWith(amountStr, "=") THEN SubSeq(amountStr, 2, Len(amountStr))
                    ELSE amountStr
      bare == without(unequalled, {"$", " ", "-"})
      european == /\ includes(unequalled, ",") /\ ~includes(unequalled, ".")
                  /\ Len(bare) >= 4
                  /\ digitAt(bare, Len(bare) - 3) /\ CharAt(bare, Len(bare) - 2) = ","
                  /\ digitAt(bare, Len(bare) - 1) /\ digitAt(bare, Len(bare))
      pointed == IF european THEN replaceFirst(unequalled, ",", ".") ELSE unequalled IN
    withDecimalPoint(ocrCorrections(without(pointed, {"$", ",", " "})))

\* isNegative ? -parsedAmount : parsedAmount, << >> where the code returns null
withSign(isNegative, parsedAmount) ==
  IF parsedAmount = << >> \/ parsedAmount = << 0 >> THEN << >>
  ELSE IF isNegative THEN << 0 - parsedAmount[1] >>
  ELSE parsedAmount

\* The sign and the parseFloat of createTransaction on cleanAmountStr
signedAmountOf(cleanAmountStr) ==
  withSign(startsWith(cleanAmountStr, "-"),
           signedParseFloat(IF startsWith(cleanAmountStr, "-")
                            THEN SubSeq(cleanAmountStr, 2, Len(cleanAmountStr))
                            ELSE cleanAmountStr))

\* The amount createTransaction reads from amountStr, in cents: << >> if it
\* returns null for the amount, else << originalAmount >>.  A number has at
\* most two decimals.
originalAmountOf(amountStr) == signedAmountOf(cleanAmountStrOf(amountStr))

\* the days of the year before the first day of each of its months
daysBeforeMonth(year) ==
  LET february == IF year % 4 = 0 THEN 29 ELSE 28 IN
    [k \in 0..11 |->
       SumSeq(SubSeq(<< 31, february, 31, 30, 31, 30, 31, 31, 30, 31, 30 >>, 1, k))]

\* the days from 1 January 2025 to 1 January of a year from 2017 to 2040
daysBeforeYear(year) ==
  IF year >= 2025
  THEN SumSeq([k \in 1..(year - 2025) |-> IF (2024 + k) % 4 = 0 THEN 366 ELSE 365])
  ELSE -SumSeq([k \in 1..(2025 - year) |-> IF (2025 - k) % 4 = 0 THEN 366 ELSE 365])

\* new Date(year, monthIndex, day), the zone being UTC.  A month index outside
\* 0..11 runs into the years before or after, and a day the month does not
\* have into the months after: the Date is never invalid.
newDateYMD(year, monthIndex, day) ==
  LET inYear == year + (monthIndex \div 12) IN
    24 * (daysBeforeYear(inYear) + daysBeforeMonth(inYear)[monthIndex % 12] + day - 151)

\* PDFTransactionParser.parseDate of "m/d/2025", m and d of one or two digits:
\* << new Date(2025, m - 1, d) >>, or << >> for a text of another form.
pdfParseDate(dateStr) ==
  LET parts == split(dateStr, "/") IN
    IF /\ Len(parts) = 3
       /\ \A k \in 1..3 : parts[k] # "" /\ allDigits(parts[k])
       /\ Len(parts[1]) <= 2 /\ Len(parts[2]) <= 2 /\ parts[3] = "2025"
    THEN << newDateYMD(2025, parseInt(parts[1]) - 1, parseInt(parts[2])) >>
    ELSE << >>

\* /^-?\d+\.\d{2}$/: the amounts the patterns of the section-aware path capture
isAmountText(part) ==
  LET digits == IF startsWith(part, "-") THEN SubSeq(part, 2, Len(part)) ELSE part IN
    /\ Len(digits) >= 4
    /\ CharAt(digits, Len(digits) - 2) = "."
    /\ allDigits(SubSeq(digits, 1, Len(digits) - 3))
    /\ allDigits(SubSeq(digits, Len(digits) - 1, Len(digits)))

\* /^\d{2}\/\d{2}$/
isDatePart(part) ==
  Len(part) = 5 /\ CharAt(part, 3) = "/"
    /\ allDigits(SubSeq(part, 1, 2)) /\ allDigits(SubSeq(part, 4, 5))

\* The validation and the object of createTransaction, given the trimmed
\* description, the amount and the date it has read.
transactionFrom(desc, originalAmount, date, allowPayments) ==
  IF originalAmount = << >> THEN << >>
  ELSE IF ~allowPayments /\ isPaymentTransaction(desc) THEN << >>
  ELSE IF date = << >> THEN << >>
  ELSE IF Len(desc) < 2 THEN << >>
  ELSE LET isReturn == isReturnTransaction(desc, originalAmount[1]) IN
         << pdfTransaction(date[1], desc, Abs(originalAmount[1]),
                           pdfCategorizeTransaction(desc, isReturn),
                           IF isReturn THEN "income" ELSE "expense") >>

\* PDFTransactionParser.createTransaction: << >> for null, else << transaction >>.
pdfCreateTransaction(dateStr, description, amountStr, allowPayments) ==
  transactionFrom(trim(description), originalAmountOf(amountStr),
                  pdfParseDate(trim(dateStr)), allowPayments)

\* new Date().toLocaleDateString(): the clock of the model stands at June 30, 2025.
todayLocaleDateString == "6/30/2025"

\* The first of the attempts, each << >> or << transaction >>, that has one.
RECURSIVE firstFound(_)
firstFound(attempts) ==
  IF attempts = << >> THEN << >>
  ELSE IF Head(attempts) # << >> THEN Head(attempts)
  ELSE firstFound(Tail(attempts))

\* The patterns loop of extractAllTransactionPatterns on a line of the cleaned
\* text, which is trimmed and has single blanks: << >> or << transaction >>.
extractFromLine(line) ==
  LET parts == splitWhitespace(line)
      n == Len(parts)
      inClass(c) == isLetter(c) \/ isDigit(c) \/ isSpace(c) \/ IndexIn("_*.-#\"',/", c) > 0
      words(i, j) == join(SubSeq(parts, i, j), " ")
      described(i, j) == i <= j /\ \A k \in 1..Len(words(i, j)) : inClass(CharAt(words(i, j), k))
      amount == n >= 2 /\ isAmountText(parts[n])
      try(matches, dateStr, description) ==
        IF matches /\ Len(description) > 3
        THEN pdfCreateTransaction(dateStr, description, parts[n], TRUE) ELSE << >> IN
    firstFound(<<
      try(/\ amount /\ n >= 6 /\ isDatePart(parts[1]) /\ isDatePart(parts[2])
          /\ Len(parts[n - 1]) = 4 /\ allDigits(parts[n - 1])
          /\ Len(parts[n - 2]) \in 3..4 /\ allDigits(parts[n - 2])
          /\ described(3, n - 3),
          parts[1] \o "/2025", words(3, n - 3)),
      try(/\ amount /\ n >= 4 /\ isDatePart(parts[1]) /\ isDatePart(parts[2])
          /\ described(3, n - 1),
          parts[1] \o "/2025", words(3, n - 1)),
      try(amount /\ n >= 3 /\ isDatePart(parts[1]) /\ described(2, n - 1),
          parts[1] \o "/2025", words(2, n - 1)),
      try(amount /\ described(1, n - 1) /\ Len(words(1, n - 1)) >= 10,
          todayLocaleDateString, words(1, n - 1)) >>)

\* extractAllTransactionPatterns
extractAllTransactionPatterns(fullText) ==
  LET lines == split(cleanOCRText(fullText), "\n")
      RECURSIVE from(_)
      from(i) ==
        IF i > Len(lines) THEN << >>
        ELSE (IF \/ trim(lines[i]) = "" \/ Len(lines[i]) < 15
                 \/ isPaymentTransaction(lines[i])
                 \/ isBankOfAmericaNonTransactionLine(lines[i])
              THEN << >> ELSE extractFromLine(lines[i])) \o from(i + 1) IN
    from(1)

\* cleanOCRLine.  Its rewrites of misread dates ("o7no", "O77", "om 7/"),
\* of "AMAZON MKTPL*" and "McDonald's", of "=" and "," before digits, of a
\* closing "-ddd", "ail", "bil", "cil" and of a closing run of three or more
\* digits find no match in a line of the model; what is left replaces every
\* run of whitespace by one blank and trims.
cleanOCRLine(line) == trim(collapseWhitespace(line))

\* The type, and in 'credits' the category, a section forces on a transaction.
forceSection(transaction, section) ==
  IF section = "credits"
  THEN [transaction EXCEPT !.type = "income", !.category = "Refunds",
                           !.foundIn = @ \cup {section}]
  ELSE [transaction EXCEPT !.type = "expense", !.foundIn = @ \cup {section}]

\* parseAlternativeBOAFormat, line being a line cleanOCRLine has returned
parseAlternativeBOAFormat(line, section) ==
  LET parts == splitWhitespace(line)
      n == Len(parts)
      amount == n >= 2 /\ isAmountText(parts[n])
      try(matches, dateStr, i) ==
        LET transaction ==
              IF matches
              THEN pdfCreateTransaction(dateStr, join(SubSeq(parts, i, n - 1), " "),
                                        parts[n], TRUE)
              ELSE << >> IN
          IF transaction = << >> THEN << >>
          ELSE << forceSection(transaction[1], section) >> IN
    firstFound(<<
      try(amount /\ n >= 4 /\ isDatePart(parts[1]) /\ isDatePart(parts[2]),
          parts[1] \o "/2025", 3),
      try(amount /\ n >= 3 /\ isDatePart(parts[1]), parts[1] \o "/2025", 2),
      try(amount, todayLocaleDateString, 1) >>)

\* parseBankOfAmericaTabularLine.  The amount is the last part that is one: no
\* line of the model has a whole number or "ail" behind its amount, which the
\* loop would take for the amount.
parseBankOfAmericaTabularLine(line, section) ==
  LET trimmedLine == trim(line)
      lowerLine == toLowerCase(trimmedLine)
      isPayment(text) ==
        \/ includes(text, "payment from chk")
        \/ includes(text, "online payment from")
        \/ includes(text, "conf#")
      cleanedLine == cleanOCRLine(trimmedLine)
      parts == splitWhitespace(cleanedLine)
      n == Len(parts)
      fourDigits(i) == Len(parts[i]) = 4 /\ allDigits(parts[i])
      transDate ==
        IF isDatePart(parts[1]) /\ isDatePart(parts[2]) THEN parts[1]
        ELSE IF Len(parts[1]) = 5 /\ allDigits(parts[1]) /\ isDatePart(parts[2])
             THEN SubSeq(parts[1], 1, 2) \o "/" \o SubSeq(parts[1], 3, 4)
        ELSE parts[2]
      amounts == {i \in 3..n : isAmountText(parts[i])}
      amountIndex == CHOOSE i \in amounts : \A j \in amounts : j <= i
      description ==
        IF amountIndex >= 5 /\ fourDigits(amountIndex - 1)
        THEN IF amountIndex >= 6 /\ fourDigits(amountIndex - 2)
             THEN join(SubSeq(parts, 3, amountIndex - 3), " ")
             ELSE join(SubSeq(parts, 3, amountIndex - 2), " ")
        ELSE join(SubSeq(parts, 3, amountIndex - 1), " ")
      transaction ==
        pdfCreateTransaction(transDate \o "/2025", description, parts[amountIndex], TRUE) IN
    IF \/ isPayment(lowerLine)
       \/ section = "credits"
            /\ (includes(trimmedLine, "367.09") \/ includes(trimmedLine, "940.83"))
    THEN << >>
    ELSE IF n < 4 \/ ~isDatePart(parts[2]) \/ amounts = {}
         THEN parseAlternativeBOAFormat(cleanedLine, section)
    ELSE IF Len(description) < 3 \/ transaction = << >> THEN << >>
    ELSE IF section = "credits" /\ isPayment(toLowerCase(description)) THEN << >>
    ELSE << forceSection(transaction[1], section) >>

\* The section a line opens, or "null": the test both loops of
\* parseBankOfAmericaCreditCardSections make on every line.
sectionStart(line) ==
  LET lowerLine == trim(toLowerCase(line)) IN
    IF includes(lowerLine, "payments and other credits") THEN "credits"
    ELSE IF includes(lowerLine, "purchases and adjustments") THEN "expenses"
    ELSE "null"

\* transaction.description.substring(0, 10)
prefix(transaction) == SubSeq(transaction.description, 1, 10)

\* The loop over allTransactions that the first loop runs on a line read in
\* a section, from the k-th transaction on: [all, processed], all being
\* allTransactions with the types and categories set so far and processed the
\* indices of the transactions pushed to processedTransactions.
RECURSIVE matchTransactions(_, _, _, _, _)
matchTransactions(all, processed, line, section, k) ==
  IF k > Len(all) THEN [all |-> all, processed |-> processed]
  ELSE LET transaction == all[k]
           lowerDesc == toLowerCase(transaction.description)
           set == forceSection(transaction, section)
           pushed == \E p \in 1..Len(processed) :
                       /\ all[processed[p]].description = set.description
                       /\ all[processed[p]].amount = set.amount
                       /\ all[processed[p]].date = set.date IN
         IF ~includes(line, prefix(transaction))
         THEN matchTransactions(all, processed, line, section, k + 1)
         ELSE IF /\ section = "credits"
                 /\ includes(lowerDesc, "payment") /\ includes(lowerDesc, "thank you")
         THEN matchTransactions(all, processed, line, section, k + 1)
         ELSE matchTransactions([all EXCEPT ![k] = set],
                                IF pushed THEN processed ELSE Append(processed, k),
                                line, section, k + 1)

(***************************************************************************)
(* parseTextForTransactions on a Bank of America credit card statement:    *)
(* the sweep over the whole text, the loop that sets the types of the      *)
(* sweep's transactions line by line, the loop that parses the lines of    *)
(* the sections, and removeDuplicates.  pc is the position in the call,    *)
(* lineIndex the line the running loop reads next; currentSection stands   *)
(* for currentSectionType in the first loop and currentSection in the      *)
(* second.  processedTransactions holds the indices in allTransactions of  *)
(* the objects the code pushes.  A transaction's foundIn is the set of     *)
(* sections in which the code has set its type; the code does not keep it. *)
(***************************************************************************)
MaxSectionLines == 1

firstLines == {"Bank of America", "06/01 06/02 COFFEE SHOP BOFA 5.00"}

\* the header of each section, as printed and with a digit read behind it
creditsHeaders == {"Payments and Other Credits", "PAYMENTS AND OTHER CREDITS1"}

expensesHeaders == {"Purchases and Adjustments", "PURCHASES AND ADJUSTMENTS2"}

transactionLines ==
  { "06/03 06/04 COFFEE SHOP -10.00",
    "06/05 06/06 COFFEE SHOP 20.00",
    "06/07 06/08 AMAZON RETURN 28.21",
    "06/03 06/04 IBI*FABLETICS.COM CA -28.21",
    "06/09 PAYMENT THANK YOU -50.00" }

sectionLines ==
  UNION {[1..n -> transactionLines] : n \in 0..MaxSectionLines}

Statements ==
  { << first, credits >> \o inCredits \o << expenses >> \o inExpenses :
      first \in firstLines, credits \in creditsHeaders, inCredits \in sectionLines,
      expenses \in expensesHeaders, inExpenses \in sectionLines }

\* identifyBankType(text) === 'BANK_OF_AMERICA'
isBankOfAmerica(text) ==
  includes(toLowerCase(text), "bank of america") \/ includes(toLowerCase(text), "bofa")

\* The call, up to the first loop of parseBankOfAmericaCreditCardSections.
\* Every statement of the model takes the section-aware branch.
ParseTextForTransactions(lines) ==
  LET text == join(lines, "\n") IN
    /\ pc = "idle"
    /\ isBankOfAmerica(text)
    /\ includes(toLowerCase(text), "payments and other credits")
    /\ statement' = lines
    /\ allTransactions' = extractAllTransactionPatterns(text)
    /\ processedTransactions' = << >>
    /\ currentSection' = "null"
    /\ lineIndex' = 1
    /\ pc' = "types"
    /\ UNCHANGED << sectionTransactions, uniqueTransactions, dedupVars, simpleVars,
                    catVars, storeVars, callVars, ocrVars >>

\* One line of the first loop; behind the last line the second loop starts
\* with currentSection = null.
SetTypesOnLine ==
  LET line == statement[lineIndex]
      last == lineIndex = Len(statement)
      matched == matchTransactions(allTransactions, processedTransactions, line,
                                   currentSection, 1) IN
    /\ pc = "types"
    /\ IF sectionStart(line) # "null"
       THEN /\ currentSection' = IF last THEN "null" ELSE sectionStart(line)
            /\ UNCHANGED << allTransactions, processedTransactions >>
       ELSE /\ currentSection' = IF last THEN "null" ELSE currentSection
            /\ IF currentSection # "null" /\ Len(allTransactions) > 0
               THEN /\ allTransactions' = matched.all
                    /\ processedTransactions' = matched.processed
               ELSE UNCHANGED << allTransactions, processedTransactions >>
    /\ lineIndex' = IF last THEN 1 ELSE lineIndex + 1
    /\ pc' = IF last THEN "sections" ELSE "types"
    /\ UNCHANGED << statement, sectionTransactions, uniqueTransactions, dedupVars,
                    simpleVars, catVars, storeVars, callVars, ocrVars >>

\* One line of the second loop
ParseSectionLine ==
  LET line == statement[lineIndex]
      last == lineIndex = Len(statement)
      alreadyProcessed ==
        \E p \in 1..Len(processedTransactions) :
          includes(line, prefix(allTransactions[processedTransactions[p]]))
      transaction == parseBankOfAmericaTabularLine(line, currentSection) IN
    /\ pc = "sections"
    /\ IF sectionStart(line) # "null"
       THEN /\ currentSection' = sectionStart(line)
            /\ UNCHANGED sectionTransactions
       ELSE /\ UNCHANGED currentSection
            /\ IF \/ currentSection = "null"
                  \/ alreadyProcessed
                  \/ isBankOfAmericaNonTransactionLine(line)
               THEN UNCHANGED sectionTransactions
               ELSE sectionTransactions' = sectionTransactions \o transaction
    /\ lineIndex' = lineIndex + 1
    /\ pc' = IF last THEN "duplicates" ELSE "sections"
    /\ UNCHANGED << statement, allTransactions, processedTransactions,
                    uniqueTransactions, dedupVars, simpleVars, catVars, storeVars, callVars,
                    ocrVars >>

\* The end of the call: the transactions of both loops, without duplicates
ReturnUniqueTransactions ==
  LET found ==
        [p \in 1..Len(processedTransactions) |-> allTransactions[processedTransactions[p]]]
          \o sectionTransactions IN
    /\ pc = "duplicates"
    /\ uniqueTransactions' = removeDuplicates(found)
    /\ pc' = "done"
    /\ UNCHANGED << statement, allTransactions, processedTransactions, currentSection,
                    lineIndex, sectionTransactions, dedupVars, simpleVars, catVars,
                    storeVars, callVars, ocrVars >>

PdfInit == CatStart /\ StoreStart /\ ParsersIdle

PdfNext ==
  \/ \E lines \in Statements : ParseTextForTransactions(lines)
  \/ SetTypesOnLine
  \/ ParseSectionLine
  \/ ReturnUniqueTransactions

SpecPdf == PdfInit /\ [][PdfNext]_vars

----------------------------------------------------------------------------
(* PDFTransactionParser.parsePDF: the OCR of the pages, then the parsing   *)
(* of their text.                                                          *)

\* What tesseract reads on a page
pageTexts ==
  { << "Bank of America", "Payments and Other Credits", "06/07 06/08 AMAZON RETURN 28.21",
       "Purchases and Adjustments", "06/03 06/04 COFFEE SHOP -10.00" >>,
    << "Bank of America", "Payments and Other Credits", "Purchases and Adjustments",
       "06/03 06/04 IBI*FABLETICS.COM CA -28.21" >>,
    << "Bank of America" >>,
    << "  " >> }

\* the OCR configurations of convertPDFToText
ocrConfigs == 4

MaxPages == 2

\* A page image: what tesseract reads on it, and how many of the OCR
\* configurations, tried in order, fail on it before one succeeds
Pages == [text : pageTexts, failing : {0, 1, ocrConfigs}]

\* The buffers handed to parsePDF: whether pdftoppm converts the document, and
\* the page images it makes
Documents ==
  {[converts |-> FALSE, pages |-> << >>]}
  \cup
  {[converts |-> TRUE, pages |-> pages] :
     pages \in UNION {[1..n -> Pages] : n \in 0..MaxPages}}

\* the length of the text with these lines
textLength(lines) == SumSeq([k \in 1..Len(lines) |-> Len(lines[k])]) + (Len(lines) - 1)

\* `\n=== PAGE ${i + 1} ===\n` + pageText + '\n' appended to a text that is
\* empty or ends with a line feed, the texts as their lines
withPage(lines, page, pageText) ==
  lines \o << "=== PAGE " \o toString(page) \o " ===" >> \o pageText \o << "" >>

\* parsePDF, up to the loop over the page images; it throws if pdftoppm fails
ParsePDFBuffer(document) ==
  /\ pdfPc = "idle"
  /\ imageFiles' = document.pages
  /\ pageIndex' = 1
  /\ configIndex' = 1
  /\ textRead' = << "" >>
  /\ ocrLog' = << >>
  /\ pdfPc' = IF document.converts THEN "ocr" ELSE "thrown"
  /\ UNCHANGED << pdfVars, dedupVars, simpleVars, callVars, catVars, storeVars >>

\* One call of tesseract: on failure the next configuration is tried on the
\* same page, and after the last one the page is left out; on success the text
\* of the page, unless blank, is appended, and the next page follows
OcrCall ==
  LET page == imageFiles[pageIndex]
      succeeds == configIndex > page.failing
      pageDone == succeeds \/ configIndex = ocrConfigs IN
    /\ pdfPc = "ocr"
    /\ pageIndex <= Len(imageFiles)
    /\ ocrLog' = Append(ocrLog, [page |-> pageIndex, config |-> configIndex,
                                 failed |-> ~succeeds])
    /\ textRead' = IF succeeds /\ trim(join(page.text, "\n")) # ""
                   THEN withPage(textRead, pageIndex, page.text)
                   ELSE textRead
    /\ pageIndex' = IF pageDone THEN pageIndex + 1 ELSE pageIndex
    /\ configIndex' = IF pageDone THEN 1 ELSE configIndex + 1
    /\ UNCHANGED << imageFiles, pdfPc, pdfVars, dedupVars, simpleVars, callVars, catVars,
                    storeVars >>

\* The end of convertPDFToText: it throws if little text was read
ReturnFullText ==
  /\ pdfPc = "ocr"
  /\ pageIndex > Len(imageFiles)
  /\ pdfPc' = IF textLength(textRead) < 100 THEN "thrown" ELSE "text"
  /\ UNCHANGED << imageFiles, pageIndex, configIndex, textRead, ocrLog, pdfVars, dedupVars,
                  simpleVars, callVars, catVars, storeVars >>

\* parsePDF hands the text to parseTextForTransactions
ParseFullText ==
  /\ pdfPc = "text"
  /\ ParseTextForTransactions(textRead)

\* parsePDF returns what parseTextForTransactions has returned
ReturnFromParsePDF ==
  /\ pdfPc = "text" /\ pc = "done"
  /\ pdfPc' = "returned"
  /\ UNCHANGED << imageFiles, pageIndex, configIndex, textRead, ocrLog, pdfVars, dedupVars,
                  simpleVars, callVars, catVars, storeVars >>

OcrInit == CatStart /\ StoreStart /\ ParsersIdle

OcrNext ==
  \/ \E document \in Documents : ParsePDFBuffer(document)
  \/ OcrCall
  \/ ReturnFullText
  \/ ParseFullText
  \/ SetTypesOnLine
  \/ ParseSectionLine
  \/ ReturnUniqueTransactions
  \/ ReturnFromParsePDF

SpecOcr == OcrInit /\ [][OcrNext]_vars

----------------------------------------------------------------------------
(* SimpleTransactionParser: the CSV rows and the text lines of a file.     *)

\* parseCSVLine.  No line of the model has a double quote: every comma ends a
\* cell and no cell has quotes to strip.
parseCSVLine(line) ==
  LET cells == split(line, ",") IN [i \in 1..Len(cells) |-> trim(cells[i])]

\* lines[0].toLowerCase().split(',').map(h => h.trim().replace(/"/g, ''))
headersOf(line) == parseCSVLine(toLowerCase(line))

\* findColumnIndex, counting columns from 1: the first header that includes
\* one of possibleNames or is included in it, the names tried in their order;
\* the first column if there is none.
RECURSIVE findColumnIndex(_, _)
findColumnIndex(headers, possibleNames) ==
  IF possibleNames = << >> THEN 1
  ELSE LET name == Head(possibleNames)
           hits == {i \in 1..Len(headers) :
                      includes(headers[i], name) \/ includes(name, headers[i])} IN
         IF hits # {} THEN CHOOSE i \in hits : \A j \in hits : i <= j
         ELSE findColumnIndex(headers, Tail(possibleNames))

\* columns[index] || columns[fallback]; "" stands for undefined as well
cellOr(columns, index, fallback) ==
  IF index <= Len(columns) /\ columns[index] # "" THEN columns[index]
  ELSE IF fallback <= Len(columns) THEN columns[fallback] ELSE ""

isHeaderLine(line) ==
  LET lowerLine == toLowerCase(line)
      after(word) == trimStart(SubSeq(trimStart(lowerLine), Len(word) + 1,
                                      Len(trimStart(lowerLine)))) IN
    \/ includes(lowerLine, "date") /\ includes(lowerLine, "amount")
    \/ includes(lowerLine, "transaction") /\ includes(lowerLine, "balance")
    \/ includes(lowerLine, "account") /\ includes(lowerLine, "statement")
    \/ includes(lowerLine, "beginning balance")
    \/ includes(lowerLine, "ending balance")
    \/ startsWith(trimStart(lowerLine), "account") /\ startsWith(after("account"), "#")
    \/ startsWith(trimStart(lowerLine), "statement") /\ startsWith(after("statement"), "period")

\* SimpleTransactionParser.parseDate of "m/d/2025", m and d of one or two
\* digits: the local midnight new Date(2025, m - 1, d), in hours since the
\* midnight before 2025-06-01.  << >> stands for null.
simpleParseDate(dateStr) ==
  LET parts == split(dateStr, "/") IN
    IF /\ Len(parts) = 3
       /\ \A i \in 1..3 : parts[i] # "" /\ allDigits(parts[i])
       /\ Len(parts[1]) <= 2 /\ Len(parts[2]) <= 2 /\ parts[3] = "2025"
    THEN << newDateYMD(2025, parseInt(parts[1]) - 1, parseInt(parts[2])) >>
    ELSE << >>

\* cleanDescription
cleanDescription(description) ==
  LET collapsed == trim(collapseWhitespace(description))
      digitsAt(d, i) == CHOOSE n \in 0..Len(d) :
                          /\ \A j \in i..(i + n - 1) : j <= Len(d) /\ isDigit(CharAt(d, j))
                          /\ ~(i + n <= Len(d) /\ isDigit(CharAt(d, i + n)))
      runOf(d, c) == CHOOSE n \in 0..Len(d) :
                       /\ \A j \in 1..n : CharAt(d, j) = c
                       /\ ~(n < Len(d) /\ CharAt(d, n + 1) = c)
      \* /^WORD\s+/i
      word(d, w) == IF startsWith(toUpperCase(d), w \o " ")
                    THEN trimStart(SubSeq(d, Len(w) + 1, Len(d))) ELSE d
      \* /^CHECK\s+\d+\s+/i
      check(d) == IF /\ startsWith(toUpperCase(d), "CHECK ")
                     /\ digitsAt(d, 7) > 0
                     /\ 7 + digitsAt(d, 7) <= Len(d)
                     /\ CharAt(d, 7 + digitsAt(d, 7)) = " "
                  THEN trimStart(SubSeq(d, 7 + digitsAt(d, 7), Len(d))) ELSE d
      \* /^\d{2}\/\d{2}\s+/
      date(d) == IF Len(d) >= 6 /\ isDatePart(SubSeq(d, 1, 5)) /\ CharAt(d, 6) = " "
                 THEN trimStart(SubSeq(d, 6, Len(d))) ELSE d
      \* /^\*+\s*/ and /^-+\s*/
      run(d, c) == IF runOf(d, c) > 0 THEN trimStart(SubSeq(d, runOf(d, c) + 1, Len(d))) ELSE d
      stripped ==
        run(run(date(word(word(word(word(check(word(word(word(collapsed,
          "POS"), "ATM"), "ACH")), "DEBIT"), "CREDIT"), "ONLINE"), "RECURRING")), "*"), "-")
      lower == toLowerCase(stripped)
      wordChar(i) == i >= 1 /\ (isLower(CharAt(lower, i)) \/ isDigit(CharAt(lower, i))
                                  \/ CharAt(lower, i) = "_")
      \* replace(/\b\w/g, l => l.toUpperCase())
      piece(i) == IF wordChar(i) /\ ~wordChar(i - 1) THEN toUpperChar(CharAt(lower, i))
                  ELSE CharAt(lower, i)
      RECURSIVE from(_, _)
      from(lo, hi) == IF lo > hi THEN ""
                      ELSE IF lo = hi THEN piece(lo)
                      ELSE from(lo, (lo + hi) \div 2) \o from(((lo + hi) \div 2) + 1, hi) IN
    trim(from(1, Len(lower)))

nonSpendingKeywords ==
  << "payment received", "payment from", "direct deposit", "salary", "payroll", "refund",
     "cashback", "reward", "credit adjustment", "interest earned", "dividend",
     "transfer from", "balance transfer", "internal transfer",
     "statement credit", "adjustment credit", "fee waiver", "promotional credit",
     "total purchases", "total payments", "previous balance", "new balance",
     "minimum payment", "account summary" >>

isNonSpendingTransaction(description) ==
  \E k \in 1..Len(nonSpendingKeywords) :
    includes(trim(toLowerCase(description)), nonSpendingKeywords[k])

strongIncomeKeywords ==
  << "payment from", "deposit from", "transfer from", "refund from", "payment received",
     "direct deposit", "salary", "payroll", "wage", "bonus", "commission",
     "dividend", "interest earned", "cashback", "reward", "freelance payment",
     "contract payment", "invoice payment", "reimbursement" >>

moderateIncomeKeywords ==
  << "refund", "return", "credit adjustment", "promotional credit", "statement credit",
     "fee waiver", "adjustment credit", "deposit", "credit" >>

strongExpenseKeywords ==
  << "payment to", "transfer to", "payment for", "purchase at", "purchase from",
     "bill payment", "automatic payment", "online payment", "debit purchase",
     "pos purchase", "atm withdrawal", "check payment" >>

\* keywords.some(keyword => lowerDesc.includes(keyword))
someIncluded(lowerDesc, keywords) ==
  \E k \in 1..Len(keywords) : includes(lowerDesc, keywords[k])

\* determineTransactionType with the strong expense keywords tried first
determineTransactionTypeExpenseFirst(originalAmount, description) ==
  LET lowerDesc == toLowerCase(description) IN
    IF someIncluded(lowerDesc, strongExpenseKeywords) THEN "expense"
    ELSE IF someIncluded(lowerDesc, strongIncomeKeywords) THEN "income"
    ELSE IF originalAmount > 0 /\ someIncluded(lowerDesc, moderateIncomeKeywords) THEN "income"
    ELSE IF /\ originalAmount < 0
            /\ someIncluded(lowerDesc, << "refund", "cashback", "return" >>) THEN "income"
    ELSE "expense"

\* determineTransactionType, the amount in cents
determineTransactionType(originalAmount, description) ==
  LET lowerDesc == toLowerCase(description) IN
    IF someIncluded(lowerDesc, strongIncomeKeywords) THEN "income"
    ELSE IF someIncluded(lowerDesc, strongExpenseKeywords) THEN "expense"
    ELSE IF originalAmount > 0 /\ someIncluded(lowerDesc, moderateIncomeKeywords) THEN "income"
    ELSE IF /\ originalAmount < 0
            /\ someIncluded(lowerDesc, << "refund", "cashback", "return" >>) THEN "income"
    ELSE "expense"

\* SimpleTransactionParser.createTransaction: << >> for null, else the
\* transaction, before an id is drawn.  The categorizer is the singleton with
\* its built-in rules.  amountStr has no "$", comma or blank to remove.
simpleCreateTransaction(dateStr, description, amountStr) ==
  LET date == simpleParseDate(trim(dateStr))
      originalAmount == signedParseFloat(trim(amountStr))
      cleaned == cleanDescription(trim(description)) IN
    IF date = << >> THEN << >>
    ELSE IF originalAmount = << >> \/ originalAmount = << 0 >> THEN << >>
    ELSE IF Len(trim(description)) < 3 THEN << >>
    ELSE IF isNonSpendingTransaction(cleaned) THEN << >>
    ELSE << parsed(date[1], cleaned, originalAmount[1],
                   determineTransactionType(originalAmount[1], cleaned)) >>

\* What /\$?([+-]?\d+\.?\d*)/ captures at the start of a part, "" if the part
\* does not start with a number.
numberAtStart(part) ==
  leadingNumber(IF startsWith(part, "$") THEN SubSeq(part, 2, Len(part)) ELSE part)

\* /^\d{1,2}\/\d{1,2}\/\d{2,4}$/
isFullDate(part) ==
  LET parts == split(part, "/") IN
    /\ Len(parts) = 3
    /\ \A i \in 1..3 : allDigits(parts[i])
    /\ Len(parts[1]) \in 1..2 /\ Len(parts[2]) \in 1..2 /\ Len(parts[3]) \in 2..4

\* The match of the patterns of parseTransactionLine, << >> if none matches.
\* A line of the model has single blanks, and if it has a digit it starts with
\* a date MM/DD/YYYY: the first pattern takes the date, as description the
\* parts up to the first later part that starts with a number, and that number
\* as the amount.  The other four patterns need a number too; they are reached
\* by the lines without one and match none of them.  parseTransactionLine
\* returns what createTransaction makes of the match, null included.
matchedLine(line) ==
  LET parts == splitWhitespace(line)
      n == Len(parts)
      numbers == {k \in 3..n : numberAtStart(parts[k]) # ""}
      k == CHOOSE i \in numbers : \A j \in numbers : i <= j IN
    IF n >= 3 /\ isFullDate(parts[1]) /\ numbers # {}
    THEN << [dateStr |-> parts[1], description |-> join(SubSeq(parts, 2, k - 1), " "),
             amountStr |-> numberAtStart(parts[k])] >>
    ELSE << >>

parseTransactionLine(line) ==
  LET match == matchedLine(line) IN
    IF match = << >> THEN << >>
    ELSE simpleCreateTransaction(match[1].dateStr, match[1].description, match[1].amountStr)

\* text.split('\n').filter(line => line.trim())
nonBlank(lines) == SelectSeq(lines, LAMBDA line : trim(line) # "")

MaxFileLines == 2

textLines ==
  { "Date Description Amount",
    "Thank you for banking with us",
    "06/16/2025 COFFEE SHOP -5.00",
    "06/15/2025 Payment From CHK 9192 Conf#9LUCGW20Z -367.09",
    "06/15/2025 COFFEE SHOP 5.00 Payment From CHK 9192 Conf#9LUCGW20Z",
    "06/17/2025 Credit Adjustment 25.00",
    "02/30/2025 COFFEE SHOP -5.00",
    "06/16/2025 AB -5.00" }

\* the columns of a plain export and those of a credit card export
headerLines ==
  { "Date,Description,Amount",
    "Posted Date,Reference Number,Payee,Address,Amount" }

rowLines ==
  { "06/16/2025,COFFEE SHOP,-5.00",
    "06/15/2025,Payment From CHK 9192 Conf#9LUCGW20Z,-367.09",
    "06/16/2025,COFFEE SHOP",
    "06/16/2025,24692165,COFFEE SHOP,,-5.00",
    "06/15/2025,24692166,Payment From CHK 9192 Conf#9LUCGW20Z,,367.09",
    "06/17/2025,Credit Adjustment,25.00",
    "13/45/2025,COFFEE SHOP,-5.00",
    "pending,COFFEE SHOP,-5.00",
    "06/16/2025,COFFEE SHOP,abc" }

fileNames ==
  { "statement.csv", "STATEMENT.TXT", "statement.pdf", "statement.xls", "statement.doc" }

fileTypes ==
  { "text/csv", "text/plain", "application/pdf", "application/msword", "" }

\* File.size of a file with these lines, each ended by a line feed
sizeOf(lines) == SumSeq([k \in 1..Len(lines) |-> Len(lines[k]) + 1])

maxFileSize == 10 * 1024 * 1024

\* The files the parser is given: a text file and a CSV file of every content,
\* a file of every name and type that is empty, that has one blank line, that
\* has a header and a line, and that is too large (its content is never read).
Files ==
  {[name |-> "STATEMENT.TXT", type |-> "text/plain", size |-> sizeOf(lines),
    lines |-> lines] :
     lines \in UNION {[1..n -> textLines] : n \in 1..MaxFileLines}}
  \cup
  {[name |-> "statement.csv", type |-> "text/csv", size |-> sizeOf(<< header >> \o rows),
    lines |-> << header >> \o rows] :
     header \in headerLines, rows \in UNION {[1..n -> rowLines] : n \in 0..MaxFileLines}}
  \cup
  {[name |-> name, type |-> type, size |-> sizeOf(lines), lines |-> lines] :
     name \in fileNames, type \in fileTypes,
     lines \in { << >>, << "" >>,
                 << "Date Description Amount", "06/16/2025 COFFEE SHOP -5.00" >> }}
  \cup
  {[name |-> name, type |-> type, size |-> maxFileSize + 1, lines |-> << >>] :
     name \in fileNames, type \in fileTypes}

FileTooLarge == "File size too large. Maximum 10MB allowed."

FileEmpty == "File is empty. Please upload a file with transaction data."

UnsupportedFileType == "Unsupported file type. Please upload CSV, TXT, or PDF files."

NoTransactionsFound ==
  "No valid transactions found in the file. Please check the file format and content."

PdfParsingError(message) == "PDF parsing error: " \o message

CouldNotExtractText ==
  "Could not extract text from PDF. The file may be image-based or have an unusual format."

NoTransactionsInPdf ==
  "No valid transactions found in the PDF. Please check if this is a bank statement with transaction data."

\* parseFile without the check that the file is not empty
validateFileSizeOnly(file) ==
  IF file.size > maxFileSize THEN FileTooLarge ELSE ""

\* The validation at the head of parseFile: the message of the error it
\* throws, "" if it throws none
validateFile(file) ==
  IF file.size > maxFileSize THEN FileTooLarge
  ELSE IF file.size = 0 THEN FileEmpty
  ELSE ""

\* The branch parseFile takes for a file, "none" for the branch that throws
strategyOf(file) ==
  LET fileName == toLowerCase(file.name)
      fileType == file.type IN
    IF endsWith(fileName, ".csv") \/ fileType = "text/csv" THEN "parseCSV"
    ELSE IF endsWith(fileName, ".txt") \/ fileType = "text/plain" THEN "parseText"
    ELSE IF endsWith(fileName, ".pdf") \/ fileType = "application/pdf" THEN "parsePDF"
    ELSE "none"

\* parseFile, up to the loop of parseCSV or of parseText or to the call of
\* parsePDF; it throws before that for a file that fails the validation or has
\* no supported type.  parseCSV and parseText keep the lines that are not blank;
\* parseCSV reads its headers from the first and its rows from the second on.
StartParseFile(file) ==
  /\ upFile' = [file EXCEPT !.lines = nonBlank(file.lines)]
  /\ fileTransactions' = << >>
  /\ IF validateFile(file) # ""
     THEN /\ outcome' = validateFile(file)
          /\ strategy' = "none"
          /\ fileLine' = 0
     ELSE /\ strategy' = strategyOf(file)
          /\ outcome' = IF strategyOf(file) = "none" THEN UnsupportedFileType ELSE "none"
          /\ fileLine' = IF strategyOf(file) = "parseCSV" THEN 2
                         ELSE IF strategyOf(file) = "parseText" THEN 1 ELSE 0

\* A call of parseFile
ParseFile(file) ==
  /\ upFile = NoFile /\ request = NoRequest
  /\ StartParseFile(file)
  /\ UNCHANGED << request, response, pdfVars, dedupVars, catVars, storeVars, callVars, ocrVars >>

\* The cells that parseCSV passes to createTransaction for a row under a line
\* of headers, << >> for a row of fewer than three columns
rowCells(headerLine, rowLine) ==
  LET headers == headersOf(headerLine)
      dateIndex == findColumnIndex(headers, << "date", "transaction date", "trans date" >>)
      descIndex == findColumnIndex(headers, << "description", "memo", "details",
                                               "transaction details" >>)
      amountIndex == findColumnIndex(headers, << "amount", "debit", "credit",
                                                 "transaction amount" >>)
      columns == parseCSVLine(rowLine) IN
    IF Len(columns) < 3 THEN << >>
    ELSE << [dateStr |-> cellOr(columns, dateIndex, 1),
             description |-> cellOr(columns, descIndex, 2),
             amountStr |-> cellOr(columns, amountIndex, 3)] >>

\* a loop that starts over when a line gives no transaction
pushOrStartOver(found, transaction) ==
  IF transaction = << >> THEN << >> ELSE found \o transaction

\* if (transaction) transactions.push(transaction): transaction is << >> for
\* null, else << the transaction >>
pushTransaction(found, transaction) == found \o transaction

\* One row of the loop of parseCSV
ParseCSVRow ==
  LET row == rowCells(upFile.lines[1], upFile.lines[fileLine]) IN
    /\ strategy = "parseCSV" /\ outcome = "none"
    /\ fileLine <= Len(upFile.lines)
    /\ fileTransactions' =
         IF row = << >> THEN fileTransactions
         ELSE pushTransaction(fileTransactions,
                              simpleCreateTransaction(row[1].dateStr, row[1].description,
                                                      row[1].amountStr))
    /\ fileLine' = fileLine + 1
    /\ UNCHANGED << upFile, outcome, strategy, request, response, pdfVars, dedupVars,
                    catVars, storeVars, callVars, ocrVars >>

\* One line of the loop of parseText
ParseTextLine ==
  LET line == upFile.lines[fileLine] IN
    /\ strategy = "parseText" /\ outcome = "none"
    /\ fileLine <= Len(upFile.lines)
    /\ fileTransactions' =
         IF isHeaderLine(line) THEN fileTransactions
         ELSE pushTransaction(fileTransactions, parseTransactionLine(line))
    /\ fileLine' = fileLine + 1
    /\ UNCHANGED << upFile, outcome, strategy, request, response, pdfVars, dedupVars,
                    catVars, storeVars, callVars, ocrVars >>

\* parseFile returning whatever its strategy has found
parseFileResultUnchecked(found) == "transactions"

\* The end of parseFile: it throws if no transaction was found
parseFileResult(found) ==
  IF Len(found) = 0 THEN NoTransactionsFound ELSE "transactions"

\* parseCSV or parseText has returned
ReturnTransactions ==
  /\ strategy \in {"parseCSV", "parseText"} /\ outcome = "none"
  /\ fileLine > Len(upFile.lines)
  /\ outcome' = parseFileResult(fileTransactions)
  /\ UNCHANGED << upFile, fileLine, fileTransactions, strategy, request, response,
                  pdfVars, dedupVars, catVars, storeVars, callVars, ocrVars >>

\* What PDFTransactionParser.parsePDF does for the buffer of a file: it throws
\* or it returns a list of transactions
pdfParserResults ==
  {[throws |-> TRUE, transactions |-> << >>]}
  \cup
  {[throws |-> FALSE, transactions |-> found] :
     found \in { << >>,
                 simpleCreateTransaction("06/16/2025", "COFFEE SHOP", "-5.00"),
                 simpleCreateTransaction("06/16/2025", "COFFEE SHOP", "-5.00")
                   \o simpleCreateTransaction("06/17/2025", "GROCERY STORE", "-12.50") }}

\* SimpleTransactionParser.parsePDF and the end of parseFile after it
ParsePDF(result) ==
  /\ strategy = "parsePDF" /\ outcome = "none"
  /\ IF result.throws
     THEN /\ outcome' = PdfParsingError(CouldNotExtractText)
          /\ UNCHANGED fileTransactions
     ELSE IF Len(result.transactions) = 0
     THEN /\ outcome' = PdfParsingError(NoTransactionsInPdf)
          /\ UNCHANGED fileTransactions
     ELSE /\ outcome' = parseFileResult(result.transactions)
          /\ fileTransactions' = result.transactions
  /\ UNCHANGED << upFile, fileLine, strategy, request, response, pdfVars, dedupVars,
                  catVars, storeVars, callVars, ocrVars >>

allowedTypes ==
  << "text/csv", "application/pdf", "text/plain", "application/vnd.ms-excel",
     "application/vnd.openxmlformats-officedocument.spreadsheetml.sheet" >>

allowedExtensions == << ".csv", ".pdf", ".txt", ".xls", ".xlsx" >>

\* file.name.toLowerCase().substring(file.name.lastIndexOf('.')); lastIndexOf
\* gives -1 for a name without a dot and substring then takes the whole name
fileExtension(name) ==
  LET dots == {k \in 1..Len(name) : CharAt(name, k) = "."}
      last == CHOOSE k \in dots : \A d \in dots : d <= k IN
    IF dots = {} THEN toLowerCase(name)
    ELSE SubSeq(toLowerCase(name), last, Len(name))

\* allowedTypes.includes(file.type) || allowedExtensions.includes(fileExtension)
typeAllowed(file) ==
  \/ arrayIncludes(allowedTypes, file.type)
  \/ arrayIncludes(allowedExtensions, fileExtension(file.name))

UnsupportedUpload == "Unsupported file type. Please upload CSV, PDF, or TXT files."

Requests ==
  {[method |-> "POST", session |-> session, file |-> file] :
     session \in BOOLEAN, file \in Files \cup {NoFile}}

\* POST of the upload route, up to its call of parseFile
Post(req) ==
  /\ upFile = NoFile /\ request = NoRequest
  /\ request' = req
  /\ IF ~req.session
     THEN /\ response' = [status |-> 401, error |-> "Unauthorized"]
          /\ UNCHANGED << upFile, fileLine, fileTransactions, outcome, strategy >>
     ELSE IF req.file = NoFile
     THEN /\ response' = [status |-> 400, error |-> "No file provided"]
          /\ UNCHANGED << upFile, fileLine, fileTransactions, outcome, strategy >>
     ELSE IF req.file.size > maxFileSize
     THEN /\ response' = [status |-> 400, error |-> FileTooLarge]
          /\ UNCHANGED << upFile, fileLine, fileTransactions, outcome, strategy >>
     ELSE IF ~typeAllowed(req.file)
     THEN /\ response' = [status |-> 400, error |-> UnsupportedUpload]
          /\ UNCHANGED << upFile, fileLine, fileTransactions, outcome, strategy >>
     ELSE /\ StartParseFile(req.file)
          /\ UNCHANGED response
  /\ UNCHANGED << pdfVars, dedupVars, catVars, storeVars, callVars, ocrVars >>

\* POST of the upload route, from the return of parseFile or its catch clause
Respond ==
  /\ request # NoRequest /\ response = NoResponse
  /\ outcome # "none"
  /\ response' = IF outcome = "transactions"
                 THEN [status |-> 200, success |-> TRUE, count |-> Len(fileTransactions)]
                 ELSE [status |-> 500, error |-> outcome]
  /\ UNCHANGED << upFile, fileLine, fileTransactions, outcome, strategy, request,
                  pdfVars, dedupVars, catVars, storeVars, callVars, ocrVars >>

SimpleInit == CatStart /\ StoreStart /\ ParsersIdle

SimpleNext ==
  \/ \E file \in Files : ParseFile(file)
  \/ ParseCSVRow
  \/ ParseTextLine
  \/ ReturnTransactions
  \/ \E result \in pdfParserResults : ParsePDF(result)
  \/ \E req \in Requests : Post(req)
  \/ Respond

SpecSimple == SimpleInit /\ [][SimpleNext]_vars

----------------------------------------------------------------------------
(* Calls of determineTransactionType.                                      *)

TypeAmounts == {-5000, -3000, -1, 0, 1, 500, 20000}

TypeDescriptions ==
  { "Grocery Store", "Direct Deposit Payroll", "Merchant Refund",
    "Online Payment From Checking", "Bill Payment", "Store Credit",
    "Cashback Purchase At Store", "Product Return" }

DetermineTransactionType ==
  /\ call.op = "determineTransactionType"
  /\ returned = << >>
  /\ returned' = << determineTransactionType(call.originalAmount, call.description) >>
  /\ UNCHANGED << call, pdfVars, dedupVars, simpleVars, ocrVars, catVars, storeVars >>

TypeInit ==
  /\ CatStart /\ StoreStart /\ PdfIdle /\ DedupIdle /\ SimpleIdle /\ OcrIdle
  /\ call \in [op : {"determineTransactionType"}, originalAmount : TypeAmounts,
               description : TypeDescriptions]
  /\ returned = << >>

TypeNext == DetermineTransactionType

SpecType == TypeInit /\ [][TypeNext]_vars


----------------------------------------------------------------------------
(* The queries of the store: getAllTransactions and getFinancialSummary.   *)

\* [...this.transactions].sort((a, b) => new Date(b.date) - new Date(a.date)):
\* a copy, sorted by descending date, equal dates in their stored order
RECURSIVE sortNewestFirst(_)
sortNewestFirst(ts) ==
  IF ts = << >> THEN << >>
  ELSE LET n == Len(ts)
           front == sortNewestFirst(SubSeq(ts, 1, n - 1))
           last == ts[n]
           keep == Cardinality({i \in 1..Len(front) : front[i].date >= last.date}) IN
         SubSeq(front, 1, keep) \o << last >> \o SubSeq(front, keep + 1, Len(front))

\* getAllTransactions that returns the transactions as they are stored
getStoredOrder(stored) == stored

\* getAllTransactions
getAllTransactions(stored) == sortNewestFirst(stored)

\* getTransactionsByDateRange(startDate, endDate)
getTransactionsByDateRange(stored, startDate, endDate) ==
  SelectSeq(stored, LAMBDA t : t.date >= startDate /\ t.date <= endDate)

isCreditCardPayment(description) ==
  someIncluded(toLowerCase(description),
               << "payment from chk", "conf#", "chk 9192", "online payment", "autopay",
                  "payment - thank you", "payment thank you", "electronic payment",
                  "bill payment" >>)

isReturnOrRefund(description) ==
  someIncluded(toLowerCase(description),
               << "refund", "return", "credit memo", "credit adjustment", "cashback",
                  "cash back", "reward", "rebate", "reversal", "void", "chargeback",
                  "dispute credit", "promotional credit", "statement credit",
                  "merchant credit", "store credit", "purchase return" >>)

\* .reduce((sum, t) => sum + t.amount, 0), in cents
sumOfAmounts(ts) == SumSeq([k \in 1..Len(ts) |-> ts[k].amount])

ofType(ts, type) == SelectSeq(ts, LAMBDA t : t.type = type)

\* Dates are hours, 24 being the midnight that starts 1 June 2025, and the
\* local time zone is taken to be UTC.  The months are counted from June 2025:
\* the day on which each starts, and its name.
monthStartDay ==
  [m \in -6..2 |->
     CASE m = -6 -> -181 [] m = -5 -> -150 [] m = -4 -> -119 [] m = -3 -> -91
       [] m = -2 -> -60 [] m = -1 -> -30 [] m = 0 -> 1 [] m = 1 -> 31 [] m = 2 -> 62]

monthName ==
  [m \in -6..2 |->
     CASE m = -6 -> "Dec 2024" [] m = -5 -> "Jan 2025" [] m = -4 -> "Feb 2025"
       [] m = -3 -> "Mar 2025" [] m = -2 -> "Apr 2025" [] m = -1 -> "May 2025"
       [] m = 0 -> "Jun 2025" [] m = 1 -> "Jul 2025" [] m = 2 -> "Aug 2025"]

\* now.getMonth(), for a time in June or July 2025
getMonth(now) == IF now < 24 * monthStartDay[1] THEN 0 ELSE 1

\* new Date(year, month, day): day 0 is the last day of the month before
newDateOf(month, day) == 24 * (monthStartDay[month] + day - 1)

\* the map categoryTotals as the list of its entries, in insertion order
categoryTotals(actualExpenses) ==
  LET firstOf == SelectSeq([k \in 1..Len(actualExpenses) |-> k],
                           LAMBDA k : \A j \in 1..(k - 1) :
                             actualExpenses[j].category # actualExpenses[k].category)
      inCategory(k) == SelectSeq(actualExpenses,
                                 LAMBDA t : t.category = actualExpenses[firstOf[k]].category) IN
    [k \in 1..Len(firstOf) |->
       [category |-> actualExpenses[firstOf[k]].category,
        amount |-> sumOfAmounts(inCategory(k)),
        count |-> Len(inCategory(k))]]

\* .sort((a, b) => b.amount - a.amount)
RECURSIVE sortByAmountDesc(_)
sortByAmountDesc(entries) ==
  IF entries = << >> THEN << >>
  ELSE LET n == Len(entries)
           front == sortByAmountDesc(SubSeq(entries, 1, n - 1))
           last == entries[n]
           keep == Cardinality({i \in 1..Len(front) : front[i].amount >= last.amount}) IN
         SubSeq(front, 1, keep) \o << last >> \o SubSeq(front, keep + 1, Len(front))

\* topCategories; a percentage is the quotient of the two numbers given
topCategories(actualExpenses, totalExpenses) ==
  LET totals == categoryTotals(actualExpenses)
      entries == [k \in 1..Len(totals) |->
                    [category |-> totals[k].category,
                     amount |-> totals[k].amount,
                     count |-> totals[k].count,
                     percentage |-> IF totalExpenses > 0
                                    THEN << totals[k].amount * 100, totalExpenses >>
                                    ELSE << 0, 1 >>]]
      sorted == sortByAmountDesc(entries) IN
    SubSeq(sorted, 1, IF Len(sorted) < 5 THEN Len(sorted) ELSE 5)

\* monthlyTrends: the last six months, the oldest first
monthlyTrends(stored, now) ==
  [k \in 1..6 |->
     LET month == getMonth(now) - (6 - k)
         monthTransactions == getTransactionsByDateRange(stored, newDateOf(month, 1),
                                                         newDateOf(month + 1, 0))
         monthIncome == sumOfAmounts(ofType(monthTransactions, "income"))
         monthExpenses == sumOfAmounts(ofType(monthTransactions, "expense")) IN
       [month |-> monthName[month], income |-> monthIncome, expenses |-> monthExpenses,
        net |-> monthIncome - monthExpenses]]

\* the figures of getFinancialSummary, computed as the code computes them
summaryFigures(stored, balance, now) ==
  LET month == getMonth(now)
      currentMonthTransactions ==
        getTransactionsByDateRange(stored, newDateOf(month, 1), newDateOf(month + 1, 0))
      lastMonthTransactions ==
        getTransactionsByDateRange(stored, newDateOf(month - 1, 1), newDateOf(month, 0))
      cycleTransactions ==
        getTransactionsByDateRange(stored, newDateOf(month - 1, 19), newDateOf(month, 19))
      actual(ts) == SelectSeq(ts, LAMBDA t : t.type = "expense"
                                             /\ ~isCreditCardPayment(t.description))
      returnsIn(ts) == SelectSeq(ts, LAMBDA t : t.type = "income"
                                                /\ isReturnOrRefund(t.description))
      otherIncomeIn(ts) == SelectSeq(ts, LAMBDA t : t.type = "income"
                                                    /\ ~isReturnOrRefund(t.description))
      totalExpenses == sumOfAmounts(actual(stored))
      totalReturns == sumOfAmounts(returnsIn(stored))
      totalIncome == sumOfAmounts(otherIncomeIn(stored)) IN
    [totalExpenses |-> totalExpenses,
     totalReturns |-> totalReturns,
     totalIncome |-> totalIncome,
     totalSpending |-> totalExpenses + totalReturns,
     monthlyIncome |-> sumOfAmounts(otherIncomeIn(currentMonthTransactions)),
     monthlyExpenses |-> sumOfAmounts(actual(currentMonthTransactions)),
     lastMonthExpenses |-> sumOfAmounts(actual(lastMonthTransactions))
                             - sumOfAmounts(returnsIn(lastMonthTransactions)),
     thisMonthSpending |-> sumOfAmounts(ofType(currentMonthTransactions, "expense")),
     lastMonthSpending |-> sumOfAmounts(ofType(lastMonthTransactions, "expense")),
     creditCardBalance |-> sumOfAmounts(ofType(cycleTransactions, "expense")),
     topCategories |-> topCategories(actual(stored), totalExpenses),
     monthlyTrends |-> monthlyTrends(stored, now)]

\* getFinancialSummary that reports the expenses without taking the returns off
getGrossSummary(stored, balance, now) ==
  LET figures == summaryFigures(stored, balance, now) IN
    [totalIncome |-> figures.totalIncome,
     totalExpenses |-> figures.totalExpenses,
     totalSpending |-> figures.totalSpending,
     netIncome |-> figures.totalIncome - figures.totalExpenses,
     monthlyIncome |-> figures.monthlyIncome,
     monthlyExpenses |-> figures.monthlyExpenses,
     lastMonthExpenses |-> figures.lastMonthExpenses,
     debitCardBalance |-> balance,
     topCategories |-> figures.topCategories,
     monthlyTrends |-> figures.monthlyTrends,
     thisMonthSpending |-> figures.thisMonthSpending,
     lastMonthSpending |-> figures.lastMonthSpending,
     creditCardBalance |-> figures.creditCardBalance]

\* getFinancialSummary that counts the balance of the debit card as income
getSummaryWithBalance(stored, balance, now) ==
  LET figures == summaryFigures(stored, balance, now) IN
    [totalIncome |-> figures.totalIncome + balance,
     totalExpenses |-> figures.totalExpenses - figures.totalReturns,
     totalSpending |-> figures.totalSpending,
     netIncome |-> figures.totalIncome + balance
                     - (figures.totalExpenses - figures.totalReturns),
     monthlyIncome |-> figures.monthlyIncome,
     monthlyExpenses |-> figures.monthlyExpenses,
     lastMonthExpenses |-> figures.lastMonthExpenses,
     debitCardBalance |-> balance,
     topCategories |-> figures.topCategories,
     monthlyTrends |-> figures.monthlyTrends,
     thisMonthSpending |-> figures.thisMonthSpending,
     lastMonthSpending |-> figures.lastMonthSpending,
     creditCardBalance |-> figures.creditCardBalance]

\* getFinancialSummary, now being the time of the call
getFinancialSummary(stored, balance, now) ==
  LET figures == summaryFigures(stored, balance, now) IN
    [totalIncome |-> figures.totalIncome,
     totalExpenses |-> figures.totalExpenses - figures.totalReturns,
     totalSpending |-> figures.totalSpending,
     netIncome |-> figures.totalIncome - (figures.totalExpenses - figures.totalReturns),
     monthlyIncome |-> figures.monthlyIncome,
     monthlyExpenses |-> figures.monthlyExpenses,
     lastMonthExpenses |-> figures.lastMonthExpenses,
     debitCardBalance |-> balance,
     topCategories |-> figures.topCategories,
     monthlyTrends |-> figures.monthlyTrends,
     thisMonthSpending |-> figures.thisMonthSpending,
     lastMonthSpending |-> figures.lastMonthSpending,
     creditCardBalance |-> figures.creditCardBalance]

\* Transactions a store may hold, by their dates: 20 May and 5 to 12 June
\* 2025, and 30 June at ten o'clock.  Two have the same date, one is a
\* refund, one pays the card.
storedItems ==
  << parsed(240, "Lunch with team", -600, "expense"),
     parsed(288, "COFFEE SHOP", -400, "expense"),
     parsed(264, "AMAZON REFUND", 300, "income"),
     parsed(264, "ONLINE PAYMENT THANK YOU", -5000, "expense"),
     parsed(120, "PAYROLL DEPOSIT", 250000, "income"),
     parsed(-264, "GROCERY STORE", -1250, "expense"),
     parsed(24 * 30 + 10, "BOOK STORE", -2000, "expense") >>

MaxStored == 3

\* the lists of up to MaxStored different items, in every order, with ids
StoredLists ==
  {withIds([k \in 1..Len(picks) |-> storedItems[picks[k]]], {}) :
     picks \in {p \in UNION {[1..n -> DOMAIN storedItems] : n \in 0..MaxStored} :
                  \A i, j \in DOMAIN p : i # j => p[i] # p[j]}}

\* the times of the calls: noon of 15 June and of 2 July 2025
Nows == {24 * 15 + 12, 24 * 32 + 12}

GetAllTransactions ==
  /\ call = NoCallYet
  /\ call' = [op |-> "getAllTransactions"]
  /\ returned' = << getAllTransactions(transactions) >>
  /\ UNCHANGED << storeVars, catVars, pdfVars, dedupVars, simpleVars, ocrVars >>

GetFinancialSummary(now) ==
  /\ call = NoCallYet
  /\ call' = [op |-> "getFinancialSummary", now |-> now]
  /\ returned' = << getFinancialSummary(transactions, debitCardBalance, now) >>
  /\ UNCHANGED << storeVars, catVars, pdfVars, dedupVars, simpleVars, ocrVars >>

\* a store that holds some transactions and a balance, and no call made yet
SummaryInit ==
  /\ CatStart /\ ParsersIdle
  /\ transactions \in StoredLists
  /\ debitCardBalance \in Balances
  /\ localStorage = saveToLocalStorage(transactions, debitCardBalance)
  /\ lastOp = NoOp
  /\ listeners = << >> /\ unsubscribed = {} /\ notified = << >>
  /\ otherTransactions = << >> /\ otherDebitCardBalance = 0
  /\ lastSaver = "this"
  /\ upload = NoUpload /\ showUpload = FALSE

SummaryNext ==
  \/ GetAllTransactions
  \/ \E now \in Nows : GetFinancialSummary(now)

SpecSummary == SummaryInit /\ [][SummaryNext]_vars

----------------------------------------------------------------------------
(* Calls of createTransaction of the PDF parser.                           *)

\* amounts as a statement shows them and as the OCR may garble them
AmountTexts ==
  {sign \o body :
     sign \in {"", "-"},
     body \in {"$1,234.56", "1,234.56", "$12.34", "12.34", "=12.34", "1234", "0123", "135",
               "012", "47", "07", "00", "5", "0", "12345", "741,25", "0.00", "$0.00",
               "ail", "abc", ""}}

PdfCreateTransaction ==
  /\ call.op = "createTransaction"
  /\ returned = << >>
  /\ returned' = << pdfCreateTransaction(call.dateStr, call.description, call.amountStr,
                                         call.allowPayments) >>
  /\ UNCHANGED << call, pdfVars, dedupVars, simpleVars, ocrVars, catVars, storeVars >>

AmountInit ==
  /\ CatStart /\ StoreStart /\ PdfIdle /\ DedupIdle /\ SimpleIdle /\ OcrIdle
  /\ call \in [op : {"createTransaction"}, dateStr : {"06/16/2025"},
               description : {"COFFEE SHOP", "PAYMENT THANK YOU"},
               amountStr : AmountTexts, allowPayments : BOOLEAN]
  /\ returned = << >>

AmountNext == PdfCreateTransaction

SpecAmount == AmountInit /\ [][AmountNext]_vars
----------------------------------------------------------------------------
(* Calls of calculateDescriptionSimilarity of the store.                   *)

\* Descriptions as statements carry them: a merchant with and without a
\* store number or punctuation, words of one or two letters, runs of
\* spaces, a word printed twice, and the empty description.
Descriptions ==
  {"STARBUCKS STORE 1234", "Starbucks Store #1234", "STARBUCKS", "UBER TRIP",
   "UBER   TRIP", "UBER UBER TRIP", "UBER TRIP HELP", "PAYPAL INST XFER",
   "PAYPAL INST XFER PAYPAL", "ATM", "AT T", ""}

CalculateDescriptionSimilarity ==
  /\ call.op = "calculateDescriptionSimilarity"
  /\ returned = << >>
  /\ returned' = << calculateDescriptionSimilarity(call.desc1, call.desc2) >>
  /\ UNCHANGED << call, pdfVars, dedupVars, simpleVars, ocrVars, catVars, storeVars >>

SimilarityInit ==
  /\ CatStart /\ StoreStart /\ PdfIdle /\ DedupIdle /\ SimpleIdle /\ OcrIdle
  /\ call \in [op : {"calculateDescriptionSimilarity"}, desc1 : Descriptions,
               desc2 : Descriptions]
  /\ returned = << >>

SimilarityNext == CalculateDescriptionSimilarity

SpecSimilarity == SimilarityInit /\ [][SimilarityNext]_vars
----------------------------------------------------------------------------
(* Properties of the store (Spec) and of the page (SpecPage).              *)

stored(id) == CHOOSE t \in Range(transactions) : t.id = id

\* C1: every transaction held by the store has amount > 0 and, when
\* originalAmount is present, amount = abs(originalAmount).
C1_AmountPositiveAndAbsOfOriginal ==
  \A t \in Range(transactions) :
    /\ t.amount > 0
    /\ t.originalAmount # NoOriginal => t.amount = Abs(t.originalAmount[1])

\* C2: once a statement file has been uploaded and parsed successfully (the
\* file is marked 'success' and handleParsedTransactions has returned, nothing
\* of the upload being left to run), every parsed transaction is in the store.
C2_ParsedTransactionsAreStored ==
  upload.status = "success" =>
    \A k \in 1..Len(upload.transactions) :
      \E t \in Range(transactions) :
        /\ t.description = upload.transactions[k].description
        /\ t.amount = upload.transactions[k].amount
        /\ t.date = upload.transactions[k].date

calendarDay(date) == date \div 24

\* The duplicate test in the words of C5, amounts in exact cents.
duplicateAsStated(existing, incoming) ==
  /\ Abs(calendarDay(existing.date) - calendarDay(incoming.date)) <= 1
  /\ Abs(existing.amount - incoming.amount) <= 1
  /\ existing.type = incoming.type
  /\ ~belowSimilarityThreshold(
        calculateDescriptionSimilarity(existing.description, incoming.description))

\* C5: addTransactions skips an incoming transaction if and only if some
\* transaction already in the store has a date within 1 calendar day of it,
\* an amount differing by at most $0.01, the same type and a description
\* similarity of at least 0.80; every other incoming transaction is appended.
C5_SkipsExactlyTheStatedDuplicates ==
  [][\A b \in DOMAIN Batches :
       AddTransactions(b) =>
         LET incoming == mapCategorize(withIds(Batches[b], idsOf(transactions)))
             kept(t) == ~\E existing \in Range(transactions) : duplicateAsStated(existing, t) IN
           transactions' = transactions \o SelectSeq(incoming, kept)]_vars

\* C7 as stated: after updateTransaction(id, updates) on an existing
\* transaction, the stored category equals the categorizer's result for the
\* transaction's updated description, amount and type.
C7_UpdateRecategorizes ==
  (lastOp.op = "updateTransaction" /\ lastOp.id \in idsOf(transactions)) =>
    stored(lastOp.id).category =
      builtInCategory(stored(lastOp.id).description, stored(lastOp.id).type)

\* C7, amended: updateTransaction(id, updates) on an existing transaction does
\* not categorize: every field named in updates takes the given value, the
\* category among them, every other field and every other transaction is as
\* before.
C7_UpdateMergesOnly ==
  [][\A id \in 1..MaxTransactions, updates \in UpdateInputs :
       (UpdateTransaction(id, updates) /\ id \in idsOf(transactions)) =>
         /\ Len(transactions') = Len(transactions)
         /\ \A i \in 1..Len(transactions) :
              IF transactions[i].id = id
              THEN \A f \in DOMAIN transactions[i] :
                     transactions'[i][f] =
                       IF f \in DOMAIN updates THEN updates[f] ELSE transactions[i][f]
              ELSE transactions'[i] = transactions[i]]_vars

\* An update has just set a category that the categorizer would not give.
C7_Witness ==
  /\ lastOp.op = "updateTransaction"
  /\ lastOp.id \in idsOf(transactions)
  /\ stored(lastOp.id).description = "Coffee beans"
  /\ stored(lastOp.id).category = "Shopping"
  /\ builtInCategory("Coffee beans", "expense") # "Shopping"

----------------------------------------------------------------------------
(* Properties of the categorizer (SpecCat).                                *)

\* The score of a rule in the words of C9: 3 for each keyword that is a whole
\* word of the description, 1 for each that occurs only inside a word.
statedScore(desc, rule) ==
  LET words == Range(splitWhitespace(desc))
      whole == {k \in 1..Len(rule.keywords) : rule.keywords[k] \in words}
      inside == {k \in 1..Len(rule.keywords) :
                   rule.keywords[k] \notin words /\ includes(desc, rule.keywords[k])} IN
    3 * Cardinality(whole) + Cardinality(inside)

\* The category in the words of C9, over a rule table.
statedCategory(description, amount, type, eRules, iRules) ==
  LET desc == trim(toLowerCase(description))
      given == IF type # Undefined THEN type ELSE IF amount > 0 THEN "income" ELSE "expense"
      rules == IF given = "income" THEN iRules ELSE eRules
      scoring == {k \in 1..Len(rules) : statedScore(desc, rules[k]) > 0}
      product(k) == statedScore(desc, rules[k]) * rules[k].priority
      winners == {k \in scoring : \A j \in scoring : product(j) <= product(k)} IN
    IF scoring = {} THEN (IF given = "income" THEN "Other Income" ELSE "Other")
    ELSE rules[CHOOSE k \in winners : \A j \in winners : k <= j].category

\* C9: categorizeTransaction scores every rule of the type, 3 per whole-word
\* keyword and 1 per substring-only keyword, and returns the category of the
\* rule with the greatest score x priority, the first in the table on equal
\* products, or 'Other' / 'Other Income' when no rule scores above 0.
C9_GreatestProductFirstWins ==
  (latest # NoCall /\ latest.customs = Len(customRules)) =>
    latest.result =
      statedCategory(latest.description, latest.amount, latest.type, expenseRules, incomeRules)

\* Two rules tie on the greatest product and the earlier one has won.
C9_Witness ==
  /\ latest.description = "coffee gas"
  /\ latest.customs = Len(customRules)
  /\ latest.result = "Food & Dining"
  /\ \E j, k \in 1..Len(expenseRules) :
       /\ j < k
       /\ expenseRules[j].category = "Food & Dining"
       /\ expenseRules[k].category # "Food & Dining"
       /\ statedScore("coffee gas", expenseRules[j]) * expenseRules[j].priority
            = statedScore("coffee gas", expenseRules[k]) * expenseRules[k].priority

\* C10: two calls of categorizeTransaction with identical description, amount
\* and type return the same category, also when addCustomRule was called
\* between them with rules none of whose keywords occurs in the description.
C10_SameInputSameCategory ==
  ( /\ remembered # NoCall
    /\ latest # NoCall
    /\ remembered.description = latest.description
    /\ remembered.amount = latest.amount
    /\ remembered.type = latest.type
    /\ \A k \in (remembered.customs + 1)..latest.customs :
         \A j \in 1..Len(customRules[k].keywords) :
           ~includes(trim(toLowerCase(latest.description)), customRules[k].keywords[j]) )
    => remembered.result = latest.result

----------------------------------------------------------------------------
(* Properties of removeDuplicates (SpecDedup).                             *)

\* C6: removeDuplicates is idempotent: for every list T,
\* removeDuplicates(removeDuplicates(T)) equals removeDuplicates(T).
C6_RemoveDuplicatesIdempotent ==
  twice # << >> => twice[1] = once[1]

\* Both calls have returned for a list of which the first call dropped an
\* exact duplicate or a fuzzy match and kept at least two transactions.
C6_Witness ==
  /\ twice # << >>
  /\ Len(once[1]) < Len(list)
  /\ Len(once[1]) >= 2

(***************************************************************************)
(* Properties of the section-aware path of the PDF parser (SpecPdf).       *)
(***************************************************************************)
\* the line the running loop reads in this step
lineRead == statement[lineIndex]

\* the first loop has read its last line and the second loop starts
secondLoopStarts == pc = "types" /\ pc' = "sections"

C8_CategoryOfFinalType ==
  pc = "done" =>
    \A i \in 1..Len(uniqueTransactions) :
      LET transaction == uniqueTransactions[i] IN
        /\ transaction.type = "expense" =>
             \E c \in 1..Len(EXPENSE_CATEGORIES) : transaction.category = EXPENSE_CATEGORIES[c]
        /\ transaction.type = "income" =>
             \E c \in 1..Len(INCOME_CATEGORIES) : transaction.category = INCOME_CATEGORIES[c]

(***************************************************************************)
(* Properties of the CSV and text parser (SpecSimple).                     *)
(***************************************************************************)
\* C4: a statement line containing "Payment From CHK 9192 Conf#9LUCGW20Z"
\* never produces a transaction; stated for the CSV/TXT line parser, the
\* first of the parsing paths the claim names: the step that reads such a
\* line adds no transaction.
C4_PaymentLineYieldsNothing ==
  [][ /\ upFile # NoFile
      /\ fileLine \in 1..Len(upFile.lines)
      /\ fileLine' = fileLine + 1
      /\ includes(upFile.lines[fileLine], "Payment From CHK 9192 Conf#9LUCGW20Z")
      => fileTransactions' = fileTransactions ]_vars

(***************************************************************************)
(* Properties of determineTransactionType (SpecType).                      *)
(***************************************************************************)
\* the rules in the order in which the claim gives them
statedType(amount, description) ==
  LET lowerDesc == toLowerCase(description) IN
    IF someIncluded(lowerDesc, strongIncomeKeywords) THEN "income"
    ELSE IF someIncluded(lowerDesc, strongExpenseKeywords) THEN "expense"
    ELSE IF amount < 0
         THEN IF \/ includes(lowerDesc, "refund") \/ includes(lowerDesc, "cashback")
                 \/ includes(lowerDesc, "return")
              THEN "income" ELSE "expense"
    ELSE IF amount > 0 /\ someIncluded(lowerDesc, moderateIncomeKeywords) THEN "income"
    ELSE "expense"

\* C11: determineTransactionType follows the ordered rules: a strong-income
\* phrase gives income whatever the sign and whatever else is present;
\* otherwise a strong-expense phrase gives expense; otherwise a negative amount
\* gives expense unless the description has refund, cashback or return;
\* otherwise a positive amount with a moderate income keyword gives income;
\* otherwise expense.  (-50, Grocery Store) is expense, (200, Direct Deposit
\* Payroll) is income and (-30, Merchant Refund) is income.
C11_TypeFollowsOrderedRules ==
  returned # << >> =>
    /\ returned[1] = statedType(call.originalAmount, call.description)
    /\ call.originalAmount = -5000 /\ call.description = "Grocery Store"
         => returned[1] = "expense"
    /\ call.originalAmount = 20000 /\ call.description = "Direct Deposit Payroll"
         => returned[1] = "income"
    /\ call.originalAmount = -3000 /\ call.description = "Merchant Refund"
         => returned[1] = "income"

\* The call has returned income for a negative amount and a description with
\* a strong-income phrase and a strong-expense phrase.
C11_Witness ==
  /\ returned = << "income" >>
  /\ call.originalAmount < 0
  /\ someIncluded(toLowerCase(call.description), strongIncomeKeywords)
  /\ someIncluded(toLowerCase(call.description), strongExpenseKeywords)

(***************************************************************************)
(* Properties of createTransaction in the CSV and text parser (SpecSimple).*)
(***************************************************************************)
\* the candidate that the loop of parseCSV or parseText takes from the line
\* it is about to read, << >> if it takes none
candidateRead ==
  IF strategy \notin {"parseCSV", "parseText"} \/ fileLine > Len(upFile.lines) THEN << >>
  ELSE IF strategy = "parseCSV" THEN rowCells(upFile.lines[1], upFile.lines[fileLine])
  ELSE IF isHeaderLine(upFile.lines[fileLine]) THEN << >>
  ELSE matchedLine(upFile.lines[fileLine])

\* C12: in the CSV and text parser a candidate whose description matches a
\* non-spending keyword yields no transaction, whatever type the classifier
\* would give it: the step that reads its line adds nothing.
C12_NonSpendingCandidateYieldsNothing ==
  [][ /\ candidateRead # << >>
      /\ fileLine' = fileLine + 1
      /\ isNonSpendingTransaction(candidateRead[1].description)
      => fileTransactions' = fileTransactions ]_vars

(***************************************************************************)
(* Properties of parseFile and of the upload route (SpecSimple).           *)
(***************************************************************************)
\* the route has answered an authenticated upload of a file of 0 bytes
emptyUploadAnswered ==
  /\ response # NoResponse
  /\ request.session
  /\ request.file # NoFile
  /\ request.file.size = 0

\* C13 as stated: uploading a file of 0 bytes fails with the error saying
\* that the file is empty, before any parse strategy runs, whatever the name
\* or MIME type of the file.
C13_EmptyUploadFailsAsEmpty ==
  emptyUploadAnswered =>
    /\ response.status # 200
    /\ response.error = FileEmpty
    /\ strategy = "none"

\* C13: a file of 0 bytes always fails before any parse strategy runs.
\* parseFile fails with the error saying that the file is empty whatever the
\* name or MIME type; the upload route gives that error for a file whose MIME
\* type or extension it allows, and rejects an empty file with neither as an
\* unsupported file type without calling parseFile.
C13_EmptyFileFailsBeforeParsing ==
  /\ upFile # NoFile /\ upFile.size = 0 =>
       /\ outcome = FileEmpty
       /\ strategy = "none"
       /\ fileLine = 0 /\ fileTransactions = << >>
  /\ emptyUploadAnswered =>
       /\ response.status # 200
       /\ strategy = "none"
       /\ response.error = IF typeAllowed(request.file) THEN FileEmpty
                           ELSE UnsupportedUpload
       /\ ~typeAllowed(request.file) => upFile = NoFile

\* The route has answered that the file is empty for an empty file that
\* parseFile has no strategy for.
C13_Witness ==
  /\ emptyUploadAnswered
  /\ response = [status |-> 500, error |-> FileEmpty]
  /\ strategyOf(request.file) = "none"

\* the messages of the errors parseFile throws
parseFileErrors ==
  { FileTooLarge, FileEmpty, UnsupportedFileType, NoTransactionsFound,
    PdfParsingError(CouldNotExtractText), PdfParsingError(NoTransactionsInPdf) }

\* C14: parseFile never returns an empty list: it throws an error with one of
\* its messages, or it returns at least one transaction.
C14_NeverReturnsEmptyList ==
  /\ outcome \in {"none", "transactions"} \cup parseFileErrors
  /\ outcome = "transactions" => Len(fileTransactions) >= 1
  /\ outcome # "none" /\ fileTransactions = << >> => outcome \in parseFileErrors

\* parseText has read every line of a file, no transaction survived, and
\* parseFile has thrown.
C14_Witness ==
  /\ strategy = "parseText"
  /\ Len(upFile.lines) >= 1 /\ fileLine > Len(upFile.lines)
  /\ fileTransactions = << >>
  /\ outcome = NoTransactionsFound

(***************************************************************************)
(* Properties of PDFTransactionParser.parsePDF (SpecOcr).                  *)
(***************************************************************************)
\* C15: a failure of the OCR call on any page of a PDF is a hard failure of
\* the whole parse: no further OCR call is made for that page, parsePDF does
\* not return, and no transactions are produced from the other pages.
C15_OcrFailureIsFatal ==
  \A k \in 1..Len(ocrLog) :
    ocrLog[k].failed =>
      /\ \A j \in (k + 1)..Len(ocrLog) : ocrLog[j].page # ocrLog[k].page
      /\ pdfPc # "returned"
      /\ uniqueTransactions = << >>

(***************************************************************************)
(* Properties of the store with its listeners (SpecListeners).             *)
(***************************************************************************)
\* how often a listener occurs among the listeners invoked
timesInvoked(invoked, listener) ==
  Cardinality({k \in 1..Len(invoked) : invoked[k] = listener})

\* the step is a mutation of the store that is saved
savedMutation ==
  \/ lastOp'.op = "addTransactions" /\ Len(transactions') > Len(transactions)
  \/ lastOp'.op = "updateTransaction" /\ lastOp'.id \in idsOf(transactions)
  \/ lastOp'.op \in {"addManualTransaction", "deleteTransaction", "setDebitCardBalance",
                     "clearAll"}

\* C16: a listener registered with subscribe is invoked exactly once for each
\* mutation of the store that is saved, and a listener is never invoked after
\* the unsubscribe function of its subscribe call has been called.
C16_ListenersNotifiedOnce ==
  [][ /\ savedMutation =>
           /\ localStorage' = << serialize(transactions', debitCardBalance') >>
           /\ \A listener \in 1..MaxListeners :
                timesInvoked(notified', listener) =
                  IF listener \in Range(listeners) \ unsubscribed THEN 1 ELSE 0
      /\ \A listener \in unsubscribed' : timesInvoked(notified', listener) = 0 ]_vars

\* A deleteTransaction has invoked the second listener once, after the first
\* one was unsubscribed.
C16_Witness ==
  /\ lastOp.op = "deleteTransaction"
  /\ unsubscribed = {1}
  /\ notified = << 2 >>

(***************************************************************************)
(* Properties of two stores over one localStorage (SpecTabs).              *)
(***************************************************************************)
\* the transactions and the balance that the persisted item holds
persisted ==
  [transactions |-> deserialize(localStorage[1]),
   debitCardBalance |-> localStorage[1].debitCardBalance]

\* C17: the saves of two store instances over the same storage are neither
\* serialized nor merged: each save overwrites the whole item with the state
\* of the instance that saves, so the persisted transactions and balance are
\* exactly those of the instance that saved last.
C17_LastWriteWins ==
  /\ lastSaver = "none" => localStorage = << >>
  /\ lastSaver = "this" =>
       persisted = [transactions |-> transactions, debitCardBalance |-> debitCardBalance]
  /\ lastSaver = "other" =>
       persisted = [transactions |-> otherTransactions,
                    debitCardBalance |-> otherDebitCardBalance]

\* Both tabs hold transactions, this tab saved last, and a transaction that
\* the other tab holds, and therefore had saved or loaded, is not in the item.
C17_Witness ==
  /\ lastSaver = "this"
  /\ transactions # << >>
  /\ \E i \in 1..Len(otherTransactions) :
       otherTransactions[i] \notin Range(persisted.transactions)

----------------------------------------------------------------------------
(* Properties of the queries of the store (SpecSummary).                   *)

\* how many times the transaction t occurs in the list ts
timesIn(ts, t) == Cardinality({k \in 1..Len(ts) : ts[k] = t})

\* C18: getAllTransactions returns every stored transaction exactly once,
\* the dates never increasing along the list, and leaves the collection of
\* the store as it was.
C18_SortedCopyNewestFirst ==
  [][call'.op = "getAllTransactions" =>
       /\ transactions' = transactions
       /\ Len(returned') = 1
       /\ LET result == returned'[1] IN
            /\ Len(result) = Len(transactions)
            /\ \A k \in 1..Len(transactions) :
                 timesIn(result, transactions[k]) = timesIn(transactions, transactions[k])
            /\ \A k \in 1..(Len(result) - 1) : result[k].date >= result[k + 1].date]_vars

\* a store holding an older transaction before a newer one has been listed
C18_Witness ==
  /\ call.op = "getAllTransactions"
  /\ Len(transactions) = MaxStored
  /\ transactions[1].date < transactions[2].date
  /\ returned[1] # transactions
  /\ returned[1][1].date > transactions[1].date

\* the sum of the amounts of the transactions of ts that counted accepts
totalOf(ts, counted(_)) ==
  SumSeq([k \in 1..Len(ts) |-> IF counted(ts[k]) THEN ts[k].amount ELSE 0])

\* the expenses that are not payments of the credit card bill
spent(ts) ==
  totalOf(ts, LAMBDA t : t.type = "expense" /\ ~isCreditCardPayment(t.description))

\* the income that is a return or a refund
refunded(ts) ==
  totalOf(ts, LAMBDA t : t.type = "income" /\ isReturnOrRefund(t.description))

\* C19: getFinancialSummary reports as totalExpenses the expenses that are
\* not payments of the credit card bill minus the income that is a return or
\* a refund, and as totalSpending the sum of the two; expenses of 10.00
\* with a refund of 3.00 give 7.00 and 13.00.
C19_ExpensesNetSpendingGross ==
  call.op = "getFinancialSummary" =>
    /\ returned[1].totalExpenses = spent(transactions) - refunded(transactions)
    /\ returned[1].totalSpending = spent(transactions) + refunded(transactions)
    /\ (spent(transactions) = 1000 /\ refunded(transactions) = 300) =>
         (returned[1].totalExpenses = 700 /\ returned[1].totalSpending = 1300)

\* the summary of two expenses of 6.00 and 4.00 and one refund of 3.00
C19_Witness ==
  /\ call.op = "getFinancialSummary"
  /\ Len(ofType(transactions, "expense")) = 2
  /\ spent(transactions) = 1000
  /\ Len(ofType(transactions, "income")) = 1
  /\ refunded(transactions) = 300
  /\ returned[1].totalExpenses = 700
  /\ returned[1].totalSpending = 1300

----------------------------------------------------------------------------
(* Properties of the debit card balance (SpecListeners).                   *)

\* the figures of a summary other than debitCardBalance
otherFigures(summary) ==
  [figure \in DOMAIN summary \ {"debitCardBalance"} |-> summary[figure]]

\* C20: setDebitCardBalance changes no transaction and no figure of the
\* financial summary other than debitCardBalance, and addTransactions,
\* addManualTransaction, updateTransaction and deleteTransaction never
\* change debitCardBalance.
C20_BalanceHasNoTransactionalEffect ==
  [][/\ lastOp'.op = "setDebitCardBalance" =>
          /\ transactions' = transactions
          /\ \A now \in Nows :
               otherFigures(getFinancialSummary(transactions', debitCardBalance', now))
                 = otherFigures(getFinancialSummary(transactions, debitCardBalance, now))
     /\ lastOp'.op \in {"addTransactions", "addManualTransaction", "updateTransaction",
                        "deleteTransaction"} =>
          debitCardBalance' = debitCardBalance]_vars

\* the balance has been set on a store that holds transactions, and the
\* summary reports it
C20_Witness ==
  /\ lastOp.op = "setDebitCardBalance"
  /\ transactions # << >>
  /\ debitCardBalance = 50000
  /\ \A now \in Nows :
       /\ getFinancialSummary(transactions, debitCardBalance, now).debitCardBalance = 50000
       /\ getFinancialSummary(transactions, debitCardBalance, now).totalSpending > 0

----------------------------------------------------------------------------
(* Properties of the dates of the CSV and text parser (SpecSimple).        *)

\* the days of the months of 2025
daysInMonth == << 31, 28, 31, 30, 31, 30, 31, 31, 30, 31, 30, 31 >>

\* the text "m/d/2025" names a day of the calendar
isCalendarDate(dateStr) ==
  LET parts == split(dateStr, "/") IN
    /\ Len(parts) = 3
    /\ \A k \in 1..3 : parts[k] # "" /\ allDigits(parts[k])
    /\ Len(parts[1]) <= 2 /\ Len(parts[2]) <= 2 /\ parts[3] = "2025"
    /\ parseInt(parts[1]) \in 1..12
    /\ parseInt(parts[2]) \in 1..daysInMonth[parseInt(parts[1])]

\* C21: no transaction is made of a candidate whose date text does not name
\* a day of the calendar, such as a month above 12 or a day the month does
\* not have: the step that reads its line adds nothing.
C21_InvalidDateYieldsNothing ==
  [][ /\ candidateRead # << >>
      /\ fileLine' = fileLine + 1
      /\ ~isCalendarDate(trim(candidateRead[1].dateStr))
      => fileTransactions' = fileTransactions ]_vars

----------------------------------------------------------------------------
(* Properties of the amounts of the PDF parser (SpecAmount).               *)

\* an amount written like "$1,234.56": digits and commas, a point, two digits
isDollarsAndCents(text) ==
  LET bare == IF startsWith(text, "$") THEN SubSeq(text, 2, Len(text)) ELSE text IN
    /\ Len(bare) >= 4
    /\ digitAt(bare, 1)
    /\ CharAt(bare, Len(bare) - 2) = "."
    /\ \A i \in 1..(Len(bare) - 3) : digitAt(bare, i) \/ CharAt(bare, i) = ","
    /\ digitAt(bare, Len(bare) - 1) /\ digitAt(bare, Len(bare))

\* The value, in cents, that the stated normalization gives the text behind
\* the sign; << >> where it is not a number or the statement leaves it open.
statedValue(text) ==
  IF isDollarsAndCents(text) THEN << parseFloat(without(text, {"$", ","})) >>
  ELSE IF Len(text) >= 2 /\ allDigits(text) THEN << parseInt(text) >>
  ELSE << >>

\* the amount of the call as stated: the value with the sign of the text
statedAmount ==
  LET negative == startsWith(call.amountStr, "-")
      value == statedValue(IF negative THEN SubSeq(call.amountStr, 2, Len(call.amountStr))
                           ELSE call.amountStr) IN
    IF value = << >> THEN << >>
    ELSE IF negative THEN << 0 - value[1] >>
    ELSE value

\* C22: createTransaction of the PDF parser reads "$1,234.56" as 1234.56 and
\* a text of digits as dollars and cents, the last two digits being the
\* cents ("1234" is 12.34, two digits are cents only); a leading minus gives
\* the value so read its sign; a candidate whose amount is zero is rejected.
C22_AmountNormalizedAsStated ==
  (/\ call.op = "createTransaction" /\ returned # << >>
   /\ statedAmount # << >>
   /\ call.allowPayments) =>
     /\ originalAmountOf(call.amountStr)
          = (IF statedAmount = << 0 >> THEN << >> ELSE statedAmount)
     /\ (returned[1] = << >>) = (statedAmount = << 0 >>)
     /\ returned[1] # << >> =>
          /\ returned[1][1].amount = Abs(statedAmount[1])
          /\ (returned[1][1].type = "income") = (statedAmount[1] < 0)

----------------------------------------------------------------------------
(* Properties of cleanOCRText (SpecPdf).                                   *)

\* the lines of the text that extractAllTransactionPatterns has got from
\* cleanOCRText for the statement being parsed
cleanedLines == split(cleanOCRText(join(statement, "\n")), "\n")

\* C23: cleanOCRText keeps the lines of the text: it returns as many lines
\* as it was given, each the corrected form of the line at its position.
C23_CleanedTextKeepsLines ==
  pc # "idle" =>
    /\ Len(cleanedLines) = Len(statement)
    /\ \A k \in 1..Len(statement) : cleanedLines[k] = cleanOCRText(statement[k])

----------------------------------------------------------------------------
(* Properties of the exact key of removeDuplicates (SpecDedup).            *)

\* the date, the amount in cents and the normalized description
exactTriple(transaction) ==
  << transaction.date, transaction.amount, cleanedDescription(transaction) >>

\* the transactions of ts at the positions of kept, in their order
keptOf(ts, kept) ==
  LET RECURSIVE upTo(_)
      upTo(n) == IF n = 0 THEN << >>
                 ELSE IF n \in kept THEN Append(upTo(n - 1), ts[n]) ELSE upTo(n - 1) IN
    upTo(Len(ts))

\* C24: removeDuplicates discards a transaction only if it has kept an
\* earlier one with the same date, amount in cents and normalized
\* description; it keeps every first occurrence and the order of the list,
\* so transactions that differ in the amount only are all kept.
C24_DiscardsExactDuplicatesOnly ==
  once # << >> =>
    \E kept \in SUBSET (1..Len(list)) :
      /\ once[1] = keptOf(list, kept)
      /\ \A k \in 1..Len(list) :
           (\A j \in 1..(k - 1) : exactTriple(list[j]) # exactTriple(list[k])) => k \in kept
      /\ \A k \in (1..Len(list)) \ kept :
           \E j \in kept : j < k /\ exactTriple(list[j]) = exactTriple(list[k])

----------------------------------------------------------------------------
(* Properties of the lines the CSV and text parser drops (SpecSimple).     *)

\* what the line at position k of the lines gives: << >> or << transaction >>
readFrom(lines, k) ==
  IF strategy = "parseCSV"
  THEN (IF k = 1 \/ rowCells(lines[1], lines[k]) = << >> THEN << >>
        ELSE LET row == rowCells(lines[1], lines[k])[1] IN
               simpleCreateTransaction(row.dateStr, row.description, row.amountStr))
  ELSE IF isHeaderLine(lines[k]) THEN << >>
  ELSE parseTransactionLine(lines[k])

\* the transactions of all the lines, in their order
RECURSIVE readUpTo(_, _)
readUpTo(lines, n) ==
  IF n = 0 THEN << >> ELSE readUpTo(lines, n - 1) \o readFrom(lines, n)

\* the line at position k holds a candidate that fails the validation of its
\* date, amount or description
failsValidation(lines, k) ==
  LET candidate == IF strategy = "parseCSV"
                   THEN (IF k = 1 THEN << >> ELSE rowCells(lines[1], lines[k]))
                   ELSE IF isHeaderLine(lines[k]) THEN << >>
                   ELSE matchedLine(lines[k]) IN
    candidate # << >> /\ readFrom(lines, k) = << >>

\* the lines without the one at position k
withoutLine(lines, k) == SubSeq(lines, 1, k - 1) \o SubSeq(lines, k + 1, Len(lines))

\* parseCSV or parseText has read all the lines of the file
allLinesRead ==
  strategy \in {"parseCSV", "parseText"} /\ fileLine > Len(upFile.lines)

\* C25: in the CSV and text parser a line whose date, amount or description
\* fails validation is dropped and the parse goes on: the transactions
\* produced are those of the file without that line.
C25_BadLineIsDroppedAlone ==
  allLinesRead =>
    \A k \in 1..Len(upFile.lines) :
      failsValidation(upFile.lines, k) =>
        fileTransactions = readUpTo(withoutLine(upFile.lines, k), Len(upFile.lines) - 1)

\* a file whose first line of data fails validation and whose last line
\* gives a transaction has been read
C25_Witness ==
  /\ allLinesRead
  /\ Len(upFile.lines) >= 2
  /\ failsValidation(upFile.lines, Len(upFile.lines) - 1)
  /\ readFrom(upFile.lines, Len(upFile.lines)) # << >>
  /\ fileTransactions = readFrom(upFile.lines, Len(upFile.lines))

----------------------------------------------------------------------------
(* Properties of the months of the summary (SpecSummary).                  *)

\* the date lies on a day of the month m, at whatever time of the day
inMonth(date, m) == date >= 24 * monthStartDay[m] /\ date < 24 * monthStartDay[m + 1]

\* the sum of the transactions of a type that are dated in the month m
monthTotal(type, m) ==
  totalOf(transactions, LAMBDA t : t.type = type /\ inMonth(t.date, m))

\* C26: the months of getFinancialSummary go by the calendar day of a
\* transaction, not by its time of day: a transaction dated on any day of a
\* month, the last day at a time after midnight included, is counted in the
\* totals of that month, in this month's and last month's spending and in
\* the trend of the six months.
C26_MonthsGoByCalendarDay ==
  call.op = "getFinancialSummary" =>
    LET summary == returned[1]
        month == getMonth(call.now) IN
      /\ summary.thisMonthSpending = monthTotal("expense", month)
      /\ summary.lastMonthSpending = monthTotal("expense", month - 1)
      /\ \A k \in 1..6 :
           /\ summary.monthlyTrends[k].expenses = monthTotal("expense", month - (6 - k))
           /\ summary.monthlyTrends[k].income = monthTotal("income", month - (6 - k))

----------------------------------------------------------------------------
(* Properties of a batch ingested again (SpecListeners).                   *)

\* C27: when addTransactions is called twice in succession with the same
\* batch, the second call adds no transaction to the store, does not save
\* and does not notify the listeners.
C27_SameBatchAgainIsNoOp ==
  [][ (/\ lastOp.op = "addTransactions"
       /\ lastOp'.op = "addTransactions"
       /\ lastOp'.id = lastOp.id) =>
        /\ transactions' = transactions
        /\ localStorage' = localStorage
        /\ lastSaver' = lastSaver
        /\ notified' = << >> ]_vars

\* The batch was ingested before, and its last ingestion, with a listener
\* subscribed, has added nothing and has invoked no listener.
C27_Witness ==
  /\ lastOp = [op |-> "addTransactions", id |-> 7]
  /\ Len(transactions) = 1
  /\ transactions[1].description = Batches[7][1].description
  /\ transactions[1].source = "upload"
  /\ listeners # << >> /\ unsubscribed = {}
  /\ notified = << >>

----------------------------------------------------------------------------
(* Properties of a store filled by addTransactions only (SpecIngest).      *)

\* C28: a store that starts empty and is changed by addTransactions only
\* never holds two transactions that are duplicates of each other by the
\* test of the ingestion (dates within one day, amounts within $0.01, the
\* same type, descriptions similar by 0.80 or more), two transactions of
\* one batch included.
C28_StoreHoldsNoDuplicates ==
  \A i, j \in 1..Len(transactions) :
    i < j => ~likelyDuplicate(transactions[i], transactions[j])

----------------------------------------------------------------------------
(* Properties of calculateDescriptionSimilarity (SpecSimilarity).          *)

\* C29: the similarity of two descriptions is the same in both orders of
\* its arguments and lies in [0, 1], so the duplicate test judges a pair of
\* transactions the same way whichever of them came first.
C29_SimilaritySymmetricAndBounded ==
  returned # << >> =>
    LET similarity == returned[1]
        swapped == calculateDescriptionSimilarity(call.desc2, call.desc1) IN
      /\ similarity.num * swapped.den = swapped.num * similarity.den
      /\ 0 <= similarity.num /\ similarity.num <= similarity.den
      /\ belowSimilarityThreshold(similarity) = belowSimilarityThreshold(swapped)

----------------------------------------------------------------------------
(* Properties of addManualTransaction (Spec).                              *)

\* C30: addManualTransaction appends one transaction to the store; its
\* description, amount, date, type and category are the ones passed in, its
\* id is newly generated and its source is 'manual'.
C30_ManualKeepsSuppliedCategory ==
  [][\A transaction \in ManualInputs :
       AddManualTransaction(transaction) =>
         /\ Len(transactions') = Len(transactions) + 1
         /\ SubSeq(transactions', 1, Len(transactions)) = transactions
         /\ LET added == transactions'[Len(transactions')] IN
              /\ added.description = transaction.description
              /\ added.amount = transaction.amount
              /\ added.date = transaction.date
              /\ added.type = transaction.type
              /\ added.category = transaction.category
              /\ added.id \notin idsOf(transactions)
              /\ added.source = "manual"]_vars

====
